---- MODULE Spec2Model ----
(***************************************************************************)
(* Sentindex: the streaming index consumer (IndexConsumer), its price      *)
(* cache, and the IndexCalculator it drives.                               *)
(*                                                                         *)
(* Python floats are IEEE-754 binary64.  The calculator's checks depend on *)
(* their rounding (abs(sum - 1.0) > 0.001), so floats are modelled bit for *)
(* bit: a finite double is sgn * man * 2^exp with man a 53-bit natural     *)
(* (or zero), naturals are little-endian sequences of 15-bit limbs, and    *)
(* every operation rounds to nearest, ties to even.  Infinities, NaN and   *)
(* subnormals are outside the inputs the model draws.                      *)
(***************************************************************************)
EXTENDS Integers, Sequences, FiniteSets, TLC

----------------------------------------------------------------------------
(* Arbitrary-precision naturals *)

\* limbs hold 15 bits
Base == 2^15

RECURSIVE Pow2(_)
Pow2(n) == IF n = 0 THEN 1 ELSE 2 * Pow2(n - 1)

RECURSIVE Trim(_)
Trim(a) ==
    IF a = <<>> THEN a
    ELSE IF a[Len(a)] = 0 THEN Trim(SubSeq(a, 1, Len(a) - 1))
    ELSE a

RECURSIVE NatFromInt(_)
NatFromInt(n) == IF n = 0 THEN <<>> ELSE <<n % Base>> \o NatFromInt(n \div Base)

RECURSIVE BitLenInt(_)
BitLenInt(n) == IF n = 0 THEN 0 ELSE 1 + BitLenInt(n \div 2)

BitLen(a) == IF a = <<>> THEN 0 ELSE 15 * (Len(a) - 1) + BitLenInt(a[Len(a)])

Limb(a, i) == IF i <= Len(a) THEN a[i] ELSE 0

RECURSIVE CmpFrom(_, _, _)
CmpFrom(a, b, i) ==
    IF i = 0 THEN 0
    ELSE IF Limb(a, i) > Limb(b, i) THEN 1
    ELSE IF Limb(a, i) < Limb(b, i) THEN -1
    ELSE CmpFrom(a, b, i - 1)

\* -1, 0, 1 as a < b, a = b, a > b
CmpNat(a, b) == CmpFrom(a, b, IF Len(a) > Len(b) THEN Len(a) ELSE Len(b))

RECURSIVE AddFrom(_, _, _, _)
AddFrom(a, b, i, carry) ==
    IF i > Len(a) /\ i > Len(b)
    THEN (IF carry = 0 THEN <<>> ELSE <<carry>>)
    ELSE LET s == Limb(a, i) + Limb(b, i) + carry
         IN  <<s % Base>> \o AddFrom(a, b, i + 1, s \div Base)

AddNat(a, b) == AddFrom(a, b, 1, 0)

RECURSIVE SubFrom(_, _, _, _)
SubFrom(a, b, i, borrow) ==
    IF i > Len(a) THEN <<>>
    ELSE LET d == Limb(a, i) - Limb(b, i) - borrow
         IN  IF d < 0 THEN <<d + Base>> \o SubFrom(a, b, i + 1, 1)
                      ELSE <<d>> \o SubFrom(a, b, i + 1, 0)

\* a - b for a >= b
SubNat(a, b) == Trim(SubFrom(a, b, 1, 0))

RECURSIVE MulSmallFrom(_, _, _, _)
MulSmallFrom(a, k, i, carry) ==
    IF i > Len(a) THEN NatFromInt(carry)
    ELSE LET p == a[i] * k + carry
         IN  <<p % Base>> \o MulSmallFrom(a, k, i + 1, p \div Base)

\* a * k for 0 <= k < 2^16
MulSmall(a, k) == Trim(MulSmallFrom(a, k, 1, 0))

RECURSIVE DivSmallFrom(_, _, _, _)
DivSmallFrom(a, d, i, rem) ==
    IF i = 0 THEN [q |-> <<>>, r |-> rem]
    ELSE LET cur  == rem * Base + a[i]
             rest == DivSmallFrom(a, d, i - 1, cur % d)
         IN  [q |-> rest.q \o <<cur \div d>>, r |-> rest.r]

\* quotient and remainder of a by d, 0 < d < 2^16
DivSmall(a, d) ==
    LET res == DivSmallFrom(a, d, Len(a), 0)
    IN  [q |-> Trim(res.q), r |-> res.r]

Zeros(n) == [i \in 1..n |-> 0]

ShiftLeft(a, s) ==
    IF a = <<>> THEN a
    ELSE Zeros(s \div 15) \o MulSmall(a, Pow2(s % 15))

ShiftRight(a, s) ==
    LET drop == s \div 15
    IN  IF drop >= Len(a) THEN <<>>
        ELSE DivSmall(SubSeq(a, drop + 1, Len(a)), Pow2(s % 15)).q

\* a mod 2^s
LowBits(a, s) == SubNat(a, ShiftLeft(ShiftRight(a, s), s))

GetBit(a, i) == (Limb(a, (i \div 15) + 1) \div Pow2(i % 15)) % 2

RECURSIVE MulFrom(_, _, _)
MulFrom(a, b, i) ==
    IF i > Len(b) THEN <<>>
    ELSE AddNat(Zeros(i - 1) \o MulSmall(a, b[i]), MulFrom(a, b, i + 1))

MulNat(a, b) == IF a = <<>> \/ b = <<>> THEN <<>> ELSE Trim(MulFrom(a, b, 1))

\* floor(r * 2^i / b) for r < 2b, one quotient bit per step, with the
\* remainder that is left
RECURSIVE DivFrom(_, _, _)
DivFrom(r, b, i) ==
    LET ge == CmpNat(r, b) >= 0
        r1 == IF ge THEN SubNat(r, b) ELSE r
    IN  IF i = 0 THEN [q |-> IF ge THEN <<1>> ELSE <<>>, r |-> r1]
        ELSE LET rest == DivFrom(MulSmall(r1, 2), b, i - 1)
             IN  [q |-> IF ge THEN AddNat(rest.q, ShiftLeft(<<1>>, i)) ELSE rest.q,
                  r |-> rest.r]

\* floor(r * 2^n / b) for r < 2b, eleven quotient bits per level
RECURSIVE DivBits(_, _, _)
DivBits(r, b, n) ==
    IF n <= 11 THEN DivFrom(r, b, n)
    ELSE LET hi == DivBits(r, b, n - 11)
             lo == DivFrom(hi.r, b, 11)
         IN  [q |-> AddNat(ShiftLeft(hi.q, 11), lo.q), r |-> lo.r]

IsOdd(a) == a # <<>> /\ a[1] % 2 = 1

----------------------------------------------------------------------------
(* binary64 *)

FZero == [sgn |-> 0, man |-> <<>>, exp |-> 0]

\* The double nearest to (-1)^sgn * (man + f) * 2^exp, where 0 < f < 1 when
\* sticky and f = 0 otherwise: round to nearest, ties to even.
RoundFloat(sgn, man, exp, sticky) ==
    LET bl == BitLen(man)
    IN  IF man = <<>> THEN FZero
        ELSE IF bl <= 53
        THEN [sgn |-> sgn, man |-> ShiftLeft(man, 53 - bl),
              exp |-> exp - (53 - bl)]
        ELSE LET k    == bl - 53
                 q    == ShiftRight(man, k)
                 low  == LowBits(man, k)
                 half == ShiftLeft(<<1>>, k - 1)
                 c    == CmpNat(low, half)
                 up   == c = 1 \/ (c = 0 /\ (sticky \/ IsOdd(q)))
                 m    == IF up THEN AddNat(q, <<1>>) ELSE q
             IN  IF BitLen(m) > 53
                 THEN [sgn |-> sgn, man |-> ShiftRight(m, 1), exp |-> exp + k + 1]
                 ELSE [sgn |-> sgn, man |-> m, exp |-> exp + k]

\* The double nearest to n/d, n a natural, 0 < d < 2^16
FromRatioNat(n, d) ==
    IF n = <<>> THEN FZero
    ELSE LET want == 55 + BitLenInt(d) - BitLen(n)
             s    == IF want > 0 THEN want ELSE 0
             res  == DivSmall(ShiftLeft(n, s), d)
         IN  RoundFloat(0, res.q, 0 - s, res.r # 0)

\* The double a decimal literal n/d denotes (n an int, 0 < d < 2^16)
FromRatio(n, d) ==
    IF n < 0 THEN [FromRatioNat(NatFromInt(0 - n), d) EXCEPT !.sgn = 1]
    ELSE FromRatioNat(NatFromInt(n), d)

FNeg(x) == IF x.man = <<>> THEN x ELSE [x EXCEPT !.sgn = 1 - x.sgn]

FAbs(x) == [x EXCEPT !.sgn = 0]

\* -1, 0, 1 as |x| < |y|, |x| = |y|, |x| > |y|
CmpMag(x, y) ==
    IF x.man = <<>> /\ y.man = <<>> THEN 0
    ELSE IF x.man = <<>> THEN -1
    ELSE IF y.man = <<>> THEN 1
    ELSE IF x.exp > y.exp THEN 1
    ELSE IF x.exp < y.exp THEN -1
    ELSE CmpNat(x.man, y.man)

\* x > y
FGt(x, y) ==
    IF x.sgn = 0 /\ y.sgn = 0 THEN CmpMag(x, y) = 1
    ELSE IF x.sgn = 0 /\ y.sgn = 1 THEN TRUE
    ELSE IF x.sgn = 1 /\ y.sgn = 0 THEN FALSE
    ELSE CmpMag(x, y) = -1

\* x <= y
FLe(x, y) == ~FGt(x, y)

\* x + y
FAdd(x, y) ==
    IF x.man = <<>> THEN y
    ELSE IF y.man = <<>> THEN x
    ELSE LET e  == IF x.exp < y.exp THEN x.exp ELSE y.exp
             mx == ShiftLeft(x.man, x.exp - e)
             my == ShiftLeft(y.man, y.exp - e)
         IN  IF x.sgn = y.sgn
             THEN RoundFloat(x.sgn, AddNat(mx, my), e, FALSE)
             ELSE LET c == CmpNat(mx, my)
                  IN  IF c = 0 THEN FZero
                      ELSE IF c = 1 THEN RoundFloat(x.sgn, SubNat(mx, my), e, FALSE)
                      ELSE RoundFloat(y.sgn, SubNat(my, mx), e, FALSE)

\* x - y
FSub(x, y) == FAdd(x, FNeg(y))

\* x * y
FMul(x, y) ==
    IF x.man = <<>> \/ y.man = <<>> THEN FZero
    ELSE RoundFloat((x.sgn + y.sgn) % 2, MulNat(x.man, y.man), x.exp + y.exp, FALSE)

\* x / y for y # 0 (Python raises ZeroDivisionError on y = 0)
FDiv(x, y) ==
    IF x.man = <<>> THEN FZero
    ELSE LET res == DivBits(x.man, y.man, 55)
         IN  RoundFloat((x.sgn + y.sgn) % 2, res.q,
                        x.exp - y.exp - 55, res.r # <<>>)

\* Python's round(x, ndigits) for ndigits in 0..4: the exact value of x is
\* rounded half-even to ndigits decimals, and the double nearest to that
\* decimal is returned (float.__round__ goes through dtoa and strtod).
PyRound(x, ndigits) ==
    IF x.man = <<>> \/ x.exp >= 0 THEN x
    ELSE LET scale == 10^ndigits
             k     == 0 - x.exp
             num   == MulSmall(x.man, scale)
             q     == ShiftRight(num, k)
             c     == CmpNat(LowBits(num, k), ShiftLeft(<<1>>, k - 1))
             n     == IF c = 1 \/ (c = 0 /\ IsOdd(q)) THEN AddNat(q, <<1>>) ELSE q
         IN  [FromRatioNat(n, scale) EXCEPT !.sgn = IF n = <<>> THEN 0 ELSE x.sgn]

----------------------------------------------------------------------------
(* IndexCalculator (core/index_calculator.py) *)

\* sum(weights.values()): left to right from the int 0
RECURSIVE SumFrom(_, _, _)
SumFrom(order, weights, i) ==
    IF i = 0 THEN FZero
    ELSE FAdd(SumFrom(order, weights, i - 1), weights[order[i]])

weight_sum(order, weights) == SumFrom(order, weights, Len(order))

\* the tolerance literal 0.001 and the literal 1.0
Tolerance == FromRatio(1, 1000)
One == FromRatio(1, 1)

\* abs(weight_sum - 1.0) > 0.001
WeightsRejected(order, weights) ==
    FGt(FAbs(FSub(weight_sum(order, weights), One)), Tolerance)

\* IndexCalculator.__init__: the calculator object, or the ValueError raised.
\* order is the insertion order of the weights dict.
IndexCalculator(order, weights, base_prices, index_base) ==
    IF WeightsRejected(order, weights)
    THEN [raised |-> "ValueError"]
    ELSE [raised |-> "", order |-> order, weights |-> weights,
          base_prices |-> base_prices, index_base |-> index_base]

\* IndexConfig.create_calculator
create_calculator(config) ==
    IndexCalculator(config.order, config.weights, config.base_prices,
                    config.base_level)

RECURSIVE ScoreFrom(_, _, _)
ScoreFrom(calc, prices, i) ==
    IF i = 0 THEN FZero
    ELSE LET symbol == calc.order[i]
             score  == ScoreFrom(calc, prices, i - 1)
         IN  IF symbol \notin DOMAIN prices THEN score
             ELSE IF symbol \notin DOMAIN calc.base_prices THEN score
             ELSE IF FLe(calc.base_prices[symbol], FZero) THEN score
             ELSE FAdd(score, FMul(FDiv(prices[symbol], calc.base_prices[symbol]),
                                   calc.weights[symbol]))

\* (the level as it would be if a snapshot that lacks a configured symbol
\* gave no score at all)
compute_level_complete(calc, prices) ==
    IF \E i \in 1..Len(calc.order) : calc.order[i] \notin DOMAIN prices
    THEN FZero
    ELSE PyRound(FMul(ScoreFrom(calc, prices, Len(calc.order)), calc.index_base), 2)

\* (the level as it would be without the final round(..., 2))
compute_level_unrounded(calc, prices) ==
    FMul(ScoreFrom(calc, prices, Len(calc.order)), calc.index_base)

\* IndexCalculator.compute_level_normalized
compute_level_normalized(calc, prices) ==
    PyRound(FMul(ScoreFrom(calc, prices, Len(calc.order)), calc.index_base), 2)

\* the loop of compute_return_index: weighted_return starts at 0.0 and takes
\* period_return * weight for each symbol of weights.items() that is in both
\* price maps with a previous price above zero
RECURSIVE ReturnFrom(_, _, _, _)
ReturnFrom(calc, prev_prices, cur_prices, i) ==
    IF i = 0 THEN FZero
    ELSE LET symbol == calc.order[i]
             weighted_return == ReturnFrom(calc, prev_prices, cur_prices, i - 1)
         IN  IF symbol \notin DOMAIN prev_prices \/ symbol \notin DOMAIN cur_prices
             THEN weighted_return
             ELSE IF FLe(prev_prices[symbol], FZero) THEN weighted_return
             ELSE FAdd(weighted_return,
                       FMul(FDiv(FSub(cur_prices[symbol], prev_prices[symbol]),
                                 prev_prices[symbol]),
                            calc.weights[symbol]))

\* (the return index as it would be if it were rounded to 2 decimals)
compute_return_index_2dp(calc, prev_prices, cur_prices, prev_index_level) ==
    PyRound(FMul(prev_index_level,
                 FAdd(One, ReturnFrom(calc, prev_prices, cur_prices, Len(calc.order)))), 2)

RECURSIVE UnweightedFrom(_, _, _, _)
UnweightedFrom(calc, prev_prices, cur_prices, i) ==
    IF i = 0 THEN FZero
    ELSE LET symbol == calc.order[i]
             total  == UnweightedFrom(calc, prev_prices, cur_prices, i - 1)
         IN  IF symbol \notin DOMAIN prev_prices \/ symbol \notin DOMAIN cur_prices
             THEN total
             ELSE IF FLe(prev_prices[symbol], FZero) THEN total
             ELSE FAdd(total, FDiv(FSub(cur_prices[symbol], prev_prices[symbol]),
                                   prev_prices[symbol]))

\* (the return index as it would be if the period returns were added up
\* without their weights)
compute_return_index_unweighted(calc, prev_prices, cur_prices, prev_index_level) ==
    PyRound(FMul(prev_index_level,
                 FAdd(One, UnweightedFrom(calc, prev_prices, cur_prices, Len(calc.order)))), 4)

\* IndexCalculator.compute_return_index
compute_return_index(calc, prev_prices, cur_prices, prev_index_level) ==
    PyRound(FMul(prev_index_level,
                 FAdd(One, ReturnFrom(calc, prev_prices, cur_prices, Len(calc.order)))), 4)

\* (the 24h change as it would be without the guard on the previous value)
compute_index_delta_24h_unguarded(current_index, prev_24h_index) ==
    IF prev_24h_index.man = <<>> THEN [raised |-> "ZeroDivisionError"]
    ELSE PyRound(FMul(FDiv(FSub(current_index, prev_24h_index), prev_24h_index),
                      FromRatio(100, 1)), 2)

\* IndexCalculator.compute_index_delta_24h
compute_index_delta_24h(current_index, prev_24h_index) ==
    IF FLe(prev_24h_index, FZero) THEN FZero
    ELSE PyRound(FMul(FDiv(FSub(current_index, prev_24h_index), prev_24h_index),
                      FromRatio(100, 1)), 2)

RECURSIVE ValidateFrom(_, _, _)
ValidateFrom(calc, prices, i) ==
    IF i > Len(calc.order) THEN [ok |-> TRUE, reason |-> ""]
    ELSE LET symbol == calc.order[i]
         IN  IF symbol \notin DOMAIN prices
             THEN [ok |-> FALSE, reason |-> "Missing price for " \o symbol]
             ELSE IF FLe(prices[symbol], FZero)
             THEN [ok |-> FALSE, reason |-> "Invalid price for " \o symbol]
             ELSE ValidateFrom(calc, prices, i + 1)

\* (validation as it would be if only an empty price map were refused)
validate_prices_nonempty(calc, prices) ==
    IF DOMAIN prices = {}
    THEN [ok |-> FALSE, reason |-> "No price data provided"]
    ELSE [ok |-> TRUE, reason |-> ""]

RECURSIVE PresentFrom(_, _, _)
PresentFrom(calc, prices, i) ==
    IF i > Len(calc.order) THEN [ok |-> TRUE, reason |-> ""]
    ELSE IF calc.order[i] \notin DOMAIN prices
    THEN [ok |-> FALSE, reason |-> "Missing price for " \o calc.order[i]]
    ELSE PresentFrom(calc, prices, i + 1)

\* (validation as it would be without the check of the sign of the price)
validate_prices_present(calc, prices) ==
    IF DOMAIN prices = {}
    THEN [ok |-> FALSE, reason |-> "No price data provided"]
    ELSE PresentFrom(calc, prices, 1)

RECURSIVE ValidateBackFrom(_, _, _)
ValidateBackFrom(calc, prices, i) ==
    IF i < 1 THEN [ok |-> TRUE, reason |-> ""]
    ELSE LET symbol == calc.order[i]
         IN  IF symbol \notin DOMAIN prices
             THEN [ok |-> FALSE, reason |-> "Missing price for " \o symbol]
             ELSE IF FLe(prices[symbol], FZero)
             THEN [ok |-> FALSE, reason |-> "Invalid price for " \o symbol]
             ELSE ValidateBackFrom(calc, prices, i - 1)

\* (validation as it would be if the weights were gone through from the last)
validate_prices_reversed(calc, prices) ==
    IF DOMAIN prices = {}
    THEN [ok |-> FALSE, reason |-> "No price data provided"]
    ELSE ValidateBackFrom(calc, prices, Len(calc.order))

\* IndexCalculator.validate_prices: (is_valid, error_message)
validate_prices(calc, prices) ==
    IF DOMAIN prices = {}
    THEN [ok |-> FALSE, reason |-> "No price data provided"]
    ELSE ValidateFrom(calc, prices, 1)

----------------------------------------------------------------------------
(* Inputs of the consumer *)

MaxMsgs == 2
MaxClock == 2

\* INTERVAL '24 hours' in clock ticks (one tick is twelve hours)
Day == 2

Symbols == {"GOLD", "OIL"}
Sources == {"AlphaVantage", "CoinGecko"}

\* timestamps carried by the observations; all of one kind (naive UTC), so
\* that any two compare
ObsTimes == {1, 2}

\* JSON numbers as decimal literals <<n, d>>: 1900.12, 1850, 78.45, 0.98, 0
GoldLits == {<<190012, 100>>, <<1850, 1>>}
OilLits == {<<7845, 100>>}
ConfidenceLit == <<98, 100>>
ZeroLit == <<0, 1>>

\* what json.loads and pydantic's float field make of a JSON number
Number ==
    [l \in GoldLits \cup OilLits \cup {ConfidenceLit, ZeroLit} |->
        FromRatio(l[1], l[2])] @@ [x \in {} |-> x]

\* message.value of the messages that parse: GOLD is quoted by both
\* sources at either price, OIL by one source
ValidValues ==
    [symbol : {"GOLD"}, price : GoldLits, unit : {"USD/oz"}, timestamp : ObsTimes,
     source : Sources, confidence : {ConfidenceLit}]
    \cup
    [symbol : {"OIL"}, price : OilLits, unit : {"USD/bbl"}, timestamp : ObsTimes,
     source : {"AlphaVantage"}, confidence : {ConfidenceLit}]

\* message.value of messages that do not: a price that is not > 0, a
\* missing field
MalformedValues ==
    { [symbol |-> "GOLD", price |-> ZeroLit, unit |-> "USD/oz", timestamp |-> 2,
       source |-> "AlphaVantage", confidence |-> ConfidenceLit],
      [symbol |-> "OIL", unit |-> "USD/bbl", timestamp |-> 2,
       source |-> "CoinGecko", confidence |-> ConfidenceLit] }

None == [none |-> TRUE]

\* the float a decimal literal <<n, d>> of a configuration denotes
Dec(l) == FromRatio(l[1], l[2])

\* Index configurations (the dicts of IndexConfig.get_..._config) as they are
\* written, with decimal literals; order is the insertion order of weights
Cfg(name, order, weights, base_prices) ==
    [name |-> name, base_level |-> <<1000, 1>>, base_date |-> "2025-01-01",
     order |-> order, weights |-> weights, base_prices |-> base_prices]

BasePrices == [GOLD |-> <<1800, 1>>, OIL |-> <<75, 1>>]

GoldOil ==
    Cfg("Gold-Oil Index", <<"GOLD", "OIL">>,
        [GOLD |-> <<5, 10>>, OIL |-> <<5, 10>>], BasePrices)

GoldOnly ==
    Cfg("Gold Index", <<"GOLD">>, [GOLD |-> <<1, 1>>], [GOLD |-> BasePrices.GOLD])

\* weights summing to 0.75
Underweight ==
    Cfg("Gold-Oil Index", <<"GOLD", "OIL">>,
        [GOLD |-> <<5, 10>>, OIL |-> <<25, 100>>], BasePrices)

IndexNames == {"gold_oil", "gold_only"}

\* the configuration dict with its literals read as floats
LoadConfig(c) ==
    [name |-> c.name, base_level |-> Dec(c.base_level), base_date |-> c.base_date,
     order |-> c.order,
     weights |-> [symbol \in DOMAIN c.weights |-> Dec(c.weights[symbol])],
     base_prices |-> [symbol \in DOMAIN c.base_prices |-> Dec(c.base_prices[symbol])]]

\* self.index_configs as loaded: an insertion-ordered dict
ConfigChoices ==
    { << [name |-> "gold_oil", config |-> LoadConfig(written[1])],
         [name |-> "gold_only", config |-> LoadConfig(written[2])] >> :
      written \in {<<GoldOil, GoldOnly>>, <<Underweight, GoldOnly>>} }

Configs == {choice[i].config : choice \in ConfigChoices, i \in 1..2}

OrderSet(order) == {order[i] : i \in 1..Len(order)}

\* the snapshots that pass validate_prices, per configuration
FullSnapshots(config) ==
    [OrderSet(config.order) -> {Number[l] : l \in GoldLits \cup OilLits}]

\* Tables of the calculator's results over the inputs the consumer can
\* meet, so that each is computed once
\* (f @@ Empty is f with every value computed)
Empty == [x \in {} |-> x]

CalculatorsOf(configs) == [config \in configs |-> create_calculator(config)] @@ Empty

LevelsOf(calculators) ==
    [config \in {c \in DOMAIN calculators : calculators[c].raised = ""} |->
        [prices \in FullSnapshots(config) |->
            compute_level_normalized(calculators[config], prices)] @@ Empty] @@ Empty

ValuesOf(levels) == UNION {{levels[c][p] : p \in DOMAIN levels[c]} : c \in DOMAIN levels}

----------------------------------------------------------------------------
(* State *)

VARIABLES
    price_cache,              \* IndexConsumer.price_cache, insertion-ordered
    index_configs,            \* IndexConsumer.index_configs
    pc,                       \* "idle" between messages, "calc" inside _calculate_indices
    idx,                      \* position of the for loop of _calculate_indices
    index_values,             \* table index_values: <<time, index_name>> -> row
    now,                      \* wall clock (datetime.utcnow, NOW())
    received,                 \* messages delivered by the Kafka iterator so far
    source_error_rate,        \* counter sentindex source errors, by source label
    index_calculations_total, \* counter, by index name
    insight_tasks,            \* _generate_insights tasks created, by index name
    cycle,                    \* what the handling of the latest message did
    newest,                   \* per symbol, the greatest timestamp received and
                              \* the prices received with it
    fn,                       \* input and result of a calculator call on its own
    insight_ended,            \* _generate_insights tasks that have ended, by index name
    insights,                 \* table insights, in insertion order
    insight_reply,            \* per index, what the Sentient API had to answer to
                              \* the task that ended last and whether the
                              \* database took writes then
    llm_requests_total,       \* counter, by status label
    stopped,                  \* stop(): how many of its awaits have returned,
                              \* and whether stop() itself has returned
    api                       \* api/main.py: its module globals, the request it
                              \* answered last and the response

vars == <<price_cache, index_configs, pc, idx, index_values, now, received,
          source_error_rate, index_calculations_total, insight_tasks, cycle,
          newest, fn, insight_ended, insights, insight_reply, llm_requests_total,
          stopped, api>>

----------------------------------------------------------------------------
(* Insertion-ordered dicts: sequences of [key, val] *)

DictKeys(d) == {d[i].key : i \in 1..Len(d)}

DictGet(d, k) == d[CHOOSE i \in 1..Len(d) : d[i].key = k].val

\* d[k] = v: a new key goes last, a known key keeps its place
DictSet(d, k, v) ==
    IF k \in DictKeys(d)
    THEN [i \in 1..Len(d) |-> IF d[i].key = k THEN [key |-> k, val |-> v] ELSE d[i]]
    ELSE Append(d, [key |-> k, val |-> v])

----------------------------------------------------------------------------
(* models/data_models.py *)

RequiredFields == {"symbol", "price", "unit", "timestamp", "source", "confidence"}

\* (the model as it would be without gt=0 on price)
PriceDataAnyPrice(value) ==
    IF ~(RequiredFields \subseteq DOMAIN value)
    THEN [raised |-> "ValidationError"]
    ELSE [raised |-> "", symbol |-> value.symbol, price |-> Number[value.price],
          unit |-> value.unit, timestamp |-> value.timestamp,
          source |-> value.source, confidence |-> Number[value.confidence]]

\* PriceData(**message.value): the observation, or the ValidationError raised
PriceData(value) ==
    IF ~(RequiredFields \subseteq DOMAIN value)
    THEN [raised |-> "ValidationError"]
    ELSE LET price      == Number[value.price]
             confidence == Number[value.confidence]
         IN  IF ~FGt(price, FZero) \/ FGt(FZero, confidence) \/ FGt(confidence, One)
             THEN [raised |-> "ValidationError"]
             ELSE [raised |-> "", symbol |-> value.symbol, price |-> price,
                   unit |-> value.unit, timestamp |-> value.timestamp,
                   source |-> value.source, confidence |-> confidence]

----------------------------------------------------------------------------
(* services/database.py *)

RowTimes(table, index_name) == {k[1] : k \in {j \in DOMAIN table : j[2] = index_name}}

Latest(times) == CHOOSE t \in times : \A u \in times : u <= t

Hundred == FromRatio(100, 1)

\* ((current_value - past_value) / past_value) * 100, rounded to 2 decimals
delta_pct(current_value, past_value) ==
    PyRound(FMul(FDiv(FSub(current_value, past_value), past_value), Hundred), 2)

DeltasOf(values) ==
    [pair \in {p \in values \X values : FGt(p[2], FZero)} |->
        delta_pct(pair[1], pair[2])] @@ Empty

MemoOf(calculators, levels) ==
    [calculator |-> calculators, level |-> levels, delta |-> DeltasOf(ValuesOf(levels))]

MemoFor(calculators) == MemoOf(calculators, LevelsOf(calculators))

\* the calculators, index levels and deltas of the configurations and
\* prices of the model
Memo == MemoFor(CalculatorsOf(Configs))

\* (the lookup as it would be without its try/except: a failed read raises)
get_index_delta_24h_raising(deltas, table, clock, index_name, read_ok) ==
    LET times == RowTimes(table, index_name)
        old   == {t \in times : t <= clock - Day}
    IN  IF ~read_ok THEN [none |-> FALSE, raised |-> "PostgresError"]
        ELSE IF times = {} \/ old = {} THEN None
        ELSE delta_pct(table[<<Latest(times), index_name>>].index_value,
                       table[<<Latest(old), index_name>>].index_value)

\* (the lookup as it would be if its second query had no bound on time)
get_index_delta_24h_any_age(deltas, table, clock, index_name, read_ok) ==
    LET times == RowTimes(table, index_name)
    IN  IF ~read_ok \/ times = {} THEN None
        ELSE LET current_value == table[<<Latest(times), index_name>>].index_value
                 past_value    == table[<<Latest(times), index_name>>].index_value
             IN  IF FLe(past_value, FZero) THEN None
                 ELSE delta_pct(current_value, past_value)

\* DatabaseService.get_index_delta_24h; read_ok is whether the queries go
\* through (an error is logged and answered with None); deltas holds
\* delta_pct where it is already computed
get_index_delta_24h(deltas, table, clock, index_name, read_ok) ==
    LET times == RowTimes(table, index_name)
        old   == {t \in times : t <= clock - Day}
    IN  IF ~read_ok \/ times = {} \/ old = {} THEN None
        ELSE LET current_value == table[<<Latest(times), index_name>>].index_value
                 past_value    == table[<<Latest(old), index_name>>].index_value
             IN  IF FLe(past_value, FZero) THEN None
                 ELSE IF <<current_value, past_value>> \in DOMAIN deltas
                 THEN deltas[<<current_value, past_value>>]
                 ELSE delta_pct(current_value, past_value)

\* float(row["index_value"]): the double nearest to the NUMERIC value; the
\* column holds the decimal expansion of the double that was stored, which
\* is the value of its mantissa and exponent
FloatOfNumeric(v) == RoundFloat(v.sgn, v.man, v.exp, FALSE)

\* (the read as it would be with ORDER BY time ASC)
get_earliest_index(table, index_name) ==
    LET times == RowTimes(table, index_name)
    IN  IF times = {} THEN None
        ELSE LET time == CHOOSE t \in times : \A u \in times : t <= u
                 row  == table[<<time, index_name>>]
             IN  [index_name |-> index_name,
                  index_value |-> FloatOfNumeric(row.index_value),
                  timestamp |-> time, method |-> row.method]

\* DatabaseService.get_latest_index: the row of the index with the greatest
\* time (ORDER BY time DESC LIMIT 1), or None; the payload it also returns
\* is left out
get_latest_index(table, index_name) ==
    LET times == RowTimes(table, index_name)
    IN  IF times = {} THEN None
        ELSE LET row == table[<<Latest(times), index_name>>]
             IN  [index_name |-> index_name,
                  index_value |-> FloatOfNumeric(row.index_value),
                  timestamp |-> Latest(times), method |-> row.method]

\* (the write as it would be with ON CONFLICT (time, index_name) DO NOTHING)
store_index_value_keep(table, index_data) ==
    LET key == <<index_data.timestamp, index_data.index_name>>
        row == [index_value |-> index_data.index_value, method |-> index_data.method,
                delta_24h_pct |-> index_data.delta_24h_pct,
                payload |-> index_data.payload]
    IN  [k \in DOMAIN table \cup {key} |-> IF k \in DOMAIN table THEN table[k] ELSE row]

\* DatabaseService.store_index_value: INSERT ... ON CONFLICT (time, index_name)
\* DO UPDATE.  The table is keyed by its primary key (time, index_name).
store_index_value(table, index_data) ==
    LET key == <<index_data.timestamp, index_data.index_name>>
        row == [index_value |-> index_data.index_value, method |-> index_data.method,
                delta_24h_pct |-> index_data.delta_24h_pct,
                payload |-> index_data.payload]
    IN  [k \in DOMAIN table \cup {key} |-> IF k = key THEN row ELSE table[k]]

----------------------------------------------------------------------------
(* services/index_consumer.py *)

\* (the cache as it would be if every observation were kept)
update_price_cache_append(cache, price_data) ==
    Append(cache, [key |-> price_data.symbol \o ":" \o price_data.source,
                   val |-> price_data])

EntryNotOlder(price_data, entry) == entry.val.timestamp >= price_data.timestamp

\* (the cache as it would be if an update evicted the entries observed
\* before the incoming observation)
update_price_cache_evicting(cache, price_data) ==
    DictSet(SelectSeq(cache, LAMBDA entry : EntryNotOlder(price_data, entry)),
            price_data.symbol \o ":" \o price_data.source, price_data)

\* IndexConsumer._update_price_cache, the in-memory part
update_price_cache(cache, price_data) ==
    DictSet(cache, price_data.symbol \o ":" \o price_data.source, price_data)

\* the loop over price_cache.items() for one symbol: the entry kept so far
RECURSIVE ScanCache(_, _, _, _)
ScanCache(cache, symbol, i, latest) ==
    IF i > Len(cache) THEN latest
    ELSE LET price_data == cache[i].val
         IN  IF price_data.symbol = symbol
                /\ (latest = None \/ price_data.timestamp > latest.timestamp)
             THEN ScanCache(cache, symbol, i + 1, price_data)
             ELSE ScanCache(cache, symbol, i + 1, latest)

latest_price(cache, symbol) == ScanCache(cache, symbol, 1, None)

\* (the snapshot as it would be if a symbol without an entry were given its
\* base price)
get_latest_prices_with_default(cache, config) ==
    [symbol \in {config.order[i] : i \in 1..Len(config.order)} |->
        IF latest_price(cache, symbol) # None
        THEN latest_price(cache, symbol).price
        ELSE config.base_prices[symbol]]

\* (the snapshot as it would be without the restriction to the symbols of
\* the index)
get_latest_prices_unrestricted(cache, config) ==
    LET found == {symbol \in Symbols : latest_price(cache, symbol) # None}
    IN  [symbol \in found |-> latest_price(cache, symbol).price]

\* (the sources as they would be if the loop kept the entry with the
\* greatest timestamp, as _get_latest_prices_for_index does)
insight_sources_latest(cache, prices) ==
    [symbol \in {x \in DOMAIN prices : latest_price(cache, x) # None} |->
        latest_price(cache, symbol).source]

\* IndexConsumer._generate_insights, "# Get source information from cache":
\* for each symbol of prices the source of the first entry of the cache, in
\* the order of its keys, that is about the symbol (the inner loop breaks
\* there)
insight_sources(cache, prices) ==
    [symbol \in {x \in DOMAIN prices :
                    \E i \in 1..Len(cache) : cache[i].val.symbol = x} |->
        cache[CHOOSE i \in 1..Len(cache) :
                  /\ cache[i].val.symbol = symbol
                  /\ \A j \in 1..(i - 1) : cache[j].val.symbol # symbol].val.source]

\* IndexConsumer._get_latest_prices_for_index
get_latest_prices_for_index(cache, config) ==
    LET found == {symbol \in {config.order[i] : i \in 1..Len(config.order)} :
                     latest_price(cache, symbol) # None}
    IN  [symbol \in found |-> latest_price(cache, symbol).price]

\* calculator = IndexConfig.create_calculator(config)
CalculatorFor(memo, config) ==
    IF config \in DOMAIN memo.calculator THEN memo.calculator[config]
    ELSE create_calculator(config)

\* index_value = calculator.compute_level_normalized(prices)
LevelFor(memo, config, calculator, prices) ==
    IF config \in DOMAIN memo.level /\ prices \in DOMAIN memo.level[config]
    THEN memo.level[config][prices]
    ELSE compute_level_normalized(calculator, prices)

\* (the dict as it would be if the loop declared the other method)
index_data_return_based(clock, index_name, index_value, delta_24h, prices, config) ==
    [timestamp |-> clock, index_name |-> index_name, index_value |-> index_value,
     method |-> "return_based", delta_24h_pct |-> delta_24h,
     payload |-> [prices |-> prices, weights |-> config.weights,
                  base_prices |-> config.base_prices]]

\* the index_data dict of _calculate_indices; clock is datetime.utcnow()
index_data(clock, index_name, index_value, delta_24h, prices, config) ==
    [timestamp |-> clock, index_name |-> index_name, index_value |-> index_value,
     method |-> "level_normalized", delta_24h_pct |-> delta_24h,
     payload |-> [prices |-> prices, weights |-> config.weights,
                  base_prices |-> config.base_prices]]

\* an iteration that ended before the write
Ended(outcome, prices, table) ==
    [outcome |-> outcome, prices |-> prices, table |-> table, stored |-> None]

\* await self.db_service.store_index_value(index_data) has returned
Persisted(prices, table, data) ==
    [outcome |-> "persisted", prices |-> prices,
     table |-> store_index_value(table, data), stored |-> data]

\* the iteration from "if not prices" on
IterationWith(memo, index_name, config, prices, calculator, table, clock, read_ok, store_ok) ==
    IF DOMAIN prices = {} THEN Ended("no_prices", prices, table)
    ELSE IF calculator.raised # "" THEN Ended("construct_error", prices, table)
    ELSE IF ~validate_prices(calculator, prices).ok THEN Ended("invalid", prices, table)
    ELSE IF ~store_ok THEN Ended("store_error", prices, table)
    ELSE Persisted(prices, table,
                   index_data(clock, index_name,
                              LevelFor(memo, config, calculator, prices),
                              get_index_delta_24h(memo.delta, table, clock,
                                                  index_name, read_ok),
                              prices, config))

\* One iteration of the for loop of _calculate_indices, up to the raise or
\* continue that ends it.  read_ok and store_ok are whether the database
\* answers the delta query and accepts the write; memo holds the results of
\* the calculator that are already computed.
IndexIteration(memo, index_name, config, cache, table, clock, read_ok, store_ok) ==
    IterationWith(memo, index_name, config, get_latest_prices_for_index(cache, config),
                  CalculatorFor(memo, config), table, clock, read_ok, store_ok)

\* (the loop as it would be with the try/except around the for statement)
NextIdxAbort(i, raised) == IF raised THEN Len(index_configs) + 1 ELSE i + 1

\* where the for loop goes after an iteration: the try/except sits inside
\* the loop, so an iteration that raised is followed by the next one
NextIdx(i, raised) == i + 1

NoCycle ==
    [status   |-> "none",
     attempts |-> [n \in IndexNames |-> 0],
     outcome  |-> [n \in IndexNames |-> "none"],
     prices   |-> [n \in IndexNames |-> <<>>],
     stamp    |-> [n \in IndexNames |-> 0],
     stored   |-> [n \in IndexNames |-> None],
     sources  |-> [n \in IndexNames |-> <<>>]]

\* the record of the newest observation per symbol, after one more: the
\* greatest timestamp, the prices received with it, the price of the one
\* that arrived last of them, and whether the latest arrival for the symbol
\* tied with the greatest timestamp before it
Observe(seen, price_data) ==
    LET old == seen[price_data.symbol]
    IN  [seen EXCEPT ![price_data.symbol] =
            IF old = None \/ old.timestamp < price_data.timestamp
            THEN [timestamp |-> price_data.timestamp, prices |-> {price_data.price},
                  last |-> price_data.price, tied |-> FALSE]
            ELSE IF old.timestamp = price_data.timestamp
            THEN [old EXCEPT !.prices = @ \cup {price_data.price},
                             !.last = price_data.price, !.tied = TRUE]
            ELSE [old EXCEPT !.tied = FALSE]]

Bump(counter, label) == [counter EXCEPT ![label] = @ + 1]

\* the try block of _consume_messages once PriceData(**message.value) has
\* returned or raised.  redis_ok is whether setex goes through.
HandleMessage(price_data) ==
    IF price_data.raised # ""
    THEN /\ source_error_rate' = Bump(source_error_rate, "kafka")
         /\ cycle' = [NoCycle EXCEPT !.status = "dropped"]
         /\ UNCHANGED <<price_cache, pc, idx, newest>>
    ELSE \E redis_ok \in BOOLEAN :
         /\ price_cache' = update_price_cache(price_cache, price_data)
         /\ newest' = Observe(newest, price_data)
         /\ IF redis_ok
            THEN /\ pc' = "calc"
                 /\ idx' = 1
                 /\ cycle' = [NoCycle EXCEPT !.status = "pass"]
                 /\ UNCHANGED source_error_rate
            ELSE /\ source_error_rate' = Bump(source_error_rate, "kafka")
                 /\ cycle' = [NoCycle EXCEPT !.status = "redis_error"]
                 /\ UNCHANGED <<pc, idx>>

\* (the loop as it would be with "await self._generate_insights(...)": it
\* goes on when the task it started has ended)
insight_awaited_inline(created, ended) == \E n \in DOMAIN created : ended[n] < created[n]

\* whether _consume_messages is waiting for a _generate_insights task:
\* asyncio.create_task schedules the coroutine and returns at once
insight_awaited(created, ended) == FALSE

\* stop() awaits kafka_consumer.stop(), redis_client.close() and
\* db_service.disconnect() in this order; stop_steps is how many have returned
kafka_running(stop_steps) == stop_steps < 1

db_connected(stop_steps) == stop_steps < 3

\* (the loop as it would be with asyncio.create_task(self._calculate_indices()):
\* it takes the next message with the pass still under way)
pass_awaited_detached(position) == TRUE

\* whether the async for of _consume_messages is at its head: the body
\* awaits _calculate_indices, so the pass of the message before has ended
pass_awaited(position) == position = "idle"

\* One turn of the async for of _consume_messages, down to the call of
\* _calculate_indices
ConsumeMessage(value) ==
    /\ pass_awaited(pc)
    /\ kafka_running(stopped.awaits)
    /\ ~insight_awaited(insight_tasks, insight_ended)
    /\ received < MaxMsgs
    /\ received' = received + 1
    /\ HandleMessage(PriceData(value))
    /\ UNCHANGED <<index_configs, index_values, now, index_calculations_total,
                   insight_tasks, fn, insight_ended, insights, insight_reply,
                   llm_requests_total, stopped, api>>

\* (the loop as it would be with asyncio.create_task(...) placed before
\* store_index_value)
insight_dispatched_before_store(outcome) == outcome \in {"persisted", "store_error"}

\* whether the iteration reaches asyncio.create_task(self._generate_insights
\* (...)), the last statement of the try block
insight_dispatched(outcome) == outcome = "persisted"

\* what an iteration of the for loop leaves behind, and where the loop goes.
\* cycle.sources is the sources dict of the insight request of the task the
\* iteration created: the task builds it before its first await, when
\* _consume_messages next suspends, from the cache as the iteration left it.
AfterIteration(index_name, it, raised) ==
    /\ index_values' = it.table
    /\ source_error_rate' =
           IF raised THEN Bump(source_error_rate, "index_calculation")
           ELSE source_error_rate
    /\ index_calculations_total' =
           IF it.outcome = "persisted"
           THEN Bump(index_calculations_total, index_name)
           ELSE index_calculations_total
    /\ insight_tasks' =
           IF insight_dispatched(it.outcome) THEN Bump(insight_tasks, index_name)
           ELSE insight_tasks
    /\ cycle' = [cycle EXCEPT !.attempts[index_name] = @ + 1,
                              !.outcome[index_name] = it.outcome,
                              !.prices[index_name] = it.prices,
                              !.stamp[index_name] = now,
                              !.stored[index_name] = it.stored,
                              !.sources[index_name] =
                                  IF insight_dispatched(it.outcome)
                                  THEN insight_sources(price_cache, it.prices)
                                  ELSE <<>>]
    /\ IF NextIdx(idx, raised) > Len(index_configs)
       THEN pc' = "idle" /\ idx' = 0
       ELSE pc' = "calc" /\ idx' = NextIdx(idx, raised)

Raised(it) == it.outcome \in {"construct_error", "store_error"}

Iterated(index_name, it) == AfterIteration(index_name, it, Raised(it))

\* One iteration of the for loop of _calculate_indices
CalculateIndex ==
    /\ pc = "calc"
    /\ ~insight_awaited(insight_tasks, insight_ended)
    /\ \E read_ok \in BOOLEAN, store_ok \in BOOLEAN :
          /\ db_connected(stopped.awaits) \/ (~read_ok /\ ~store_ok)
          /\ Iterated(index_configs[idx].name,
                      IndexIteration(Memo, index_configs[idx].name,
                                     index_configs[idx].config, price_cache,
                                     index_values, now, read_ok, store_ok))
    /\ UNCHANGED <<price_cache, index_configs, now, received, newest, fn,
                   insight_ended, insights, insight_reply,
                   llm_requests_total, stopped, api>>

\* time passes between two messages
Tick ==
    /\ pc = "idle"
    /\ now < MaxClock
    /\ now' = now + 1
    /\ UNCHANGED <<price_cache, index_configs, pc, idx, index_values, received,
                   source_error_rate, index_calculations_total, insight_tasks,
                   cycle, newest, fn, insight_ended, insights, insight_reply,
                   llm_requests_total, stopped, api>>

NoCall == [op |-> "none"]

\* api/main.py as imported: the module globals are None and no request has
\* been answered; background_tasks is the BackgroundTasks of the latest
\* request
NotStarted ==
    [started |-> FALSE, db_service |-> None, sentient_service |-> None,
     metrics |-> None, request |-> None, response |-> None,
     background_tasks |-> <<>>]

\* the statuses increment_llm_requests is called with
LlmStatuses == {"success", "validation_error", "api_error", "error"}

\* the table index_values of a new database
NoRows == [k \in {} |-> None]

\* the consumer after start(), before the first message, over a database
\* whose tables index_values and insights hold stored_values and
\* stored_insights
StartedOver(stored_values, stored_insights) ==
    /\ price_cache = <<>>
    /\ pc = "idle"
    /\ idx = 0
    /\ index_values = stored_values
    /\ now = 0
    /\ received = 0
    /\ source_error_rate = [kafka |-> 0, index_calculation |-> 0]
    /\ index_calculations_total = [n \in IndexNames |-> 0]
    /\ insight_tasks = [n \in IndexNames |-> 0]
    /\ insight_ended = [n \in IndexNames |-> 0]
    /\ insights = stored_insights
    /\ insight_reply = [n \in IndexNames |-> None]
    /\ llm_requests_total = [status \in LlmStatuses |-> 0]
    /\ stopped = [awaits |-> 0, ended |-> FALSE]
    /\ api = NotStarted
    /\ cycle = NoCycle
    /\ newest = [symbol \in Symbols |-> None]

\* the consumer after start(), before the first message, over a database
\* whose table insights holds stored_insights
StartedWith(stored_insights) == StartedOver(NoRows, stored_insights)

\* the consumer after start() over a new database
Started == StartedWith(<<>>)

Init ==
    /\ Started
    /\ index_configs \in ConfigChoices
    /\ fn = NoCall

Next ==
    \/ \E value \in ValidValues \cup MalformedValues : ConsumeMessage(value)
    \/ CalculateIndex
    \/ Tick

Spec == Init /\ [][Next]_vars

----------------------------------------------------------------------------
(* The calculator on its own: a weight mapping is drawn, the calculator is *)
(* constructed from it, and validate_prices is called on a price map.      *)

\* weights in thousandths: -0.001, 0, 0.001, ..., 1.002
WeightLits == {-1, 0, 1, 2, 250, 499, 500, 501, 750, 998, 999, 1000, 1001, 1002}

Thousandths == [t \in WeightLits |-> FromRatio(t, 1000)] @@ Empty

WeightOrders == {<<>>, <<"GOLD">>, <<"GOLD", "OIL">>, <<"OIL", "GOLD">>}

\* prices handed to validate_prices, as decimal literals: -1, 0, 1900.12
PriceInputLits == {<<-1, 1>>, ZeroLit, <<190012, 100>>}

PriceInput == [l \in PriceInputLits |-> FromRatio(l[1], l[2])] @@ Empty

\* price maps over the configured symbols and one that no index configures
PriceMaps ==
    UNION {[held -> PriceInputLits] : held \in SUBSET (Symbols \cup {"BTC"})}

InitCalc ==
    /\ Started
    /\ index_configs = <<>>
    /\ \E order \in WeightOrders :
          \E lits \in [OrderSet(order) -> WeightLits] :
             fn = [op |-> "input", order |-> order, lits |-> lits]

\* IndexCalculator(weights, base_prices, index_base)
Construct ==
    /\ fn.op = "input"
    /\ fn' = [op    |-> "constructed",
              order |-> fn.order,
              lits  |-> fn.lits,
              calc  |-> IndexCalculator(fn.order,
                                        [symbol \in DOMAIN fn.lits |->
                                            Thousandths[fn.lits[symbol]]],
                                        [symbol \in DOMAIN fn.lits |->
                                            Dec(BasePrices[symbol])],
                                        Dec(<<1000, 1>>))]
    /\ UNCHANGED <<price_cache, index_configs, pc, idx, index_values, now, received,
                   source_error_rate, index_calculations_total, insight_tasks,
                   cycle, newest, insight_ended, insights, insight_reply,
                   llm_requests_total, stopped, api>>

\* calculator.validate_prices(prices)
Validate(price_lits) ==
    /\ fn.op = "constructed"
    /\ fn.calc.raised = ""
    /\ fn' = [op         |-> "validated",
              order      |-> fn.order,
              lits       |-> fn.lits,
              calc       |-> fn.calc,
              price_lits |-> price_lits,
              result     |-> validate_prices(fn.calc,
                                 [symbol \in DOMAIN price_lits |->
                                     PriceInput[price_lits[symbol]]])]
    /\ UNCHANGED <<price_cache, index_configs, pc, idx, index_values, now, received,
                   source_error_rate, index_calculations_total, insight_tasks,
                   cycle, newest, insight_ended, insights, insight_reply,
                   llm_requests_total, stopped, api>>

NextCalc ==
    \/ Construct
    \/ \E price_lits \in PriceMaps : Validate(price_lits)

SpecCalc == InitCalc /\ [][NextCalc]_vars

----------------------------------------------------------------------------
(* The three computations of the calculator on their own: each step calls  *)
(* one of them on arguments drawn from the sets below and keeps the call   *)
(* and its result in fn.                                                   *)

ConsumerVars ==
    <<price_cache, index_configs, pc, idx, index_values, now, received,
      source_error_rate, index_calculations_total, insight_tasks, cycle, newest,
      insight_ended, insights, insight_reply,
                   llm_requests_total, stopped, api>>

\* IndexConfig.get_gold_silver_oil_crypto_config()
gold_silver_oil_crypto ==
    Cfg("Gold-Silver-Oil-Crypto Index", <<"GOLD", "SILVER", "OIL", "BTC", "ETH">>,
        [GOLD |-> <<25, 100>>, SILVER |-> <<25, 100>>, OIL |-> <<20, 100>>,
         BTC |-> <<15, 100>>, ETH |-> <<15, 100>>],
        [GOLD |-> <<1800, 1>>, SILVER |-> <<23, 1>>, OIL |-> <<75, 1>>,
         BTC |-> <<20000, 1>>, ETH |-> <<1000, 1>>])

\* the prices of the usage example under the configuration
ExamplePrices ==
    [GOLD |-> <<190012, 100>>, SILVER |-> <<2431, 100>>, OIL |-> <<7845, 100>>,
     BTC |-> <<27450, 1>>, ETH |-> <<1850, 1>>]

\* a three-asset mapping, written in two insertion orders
ThreeWeights == [GOLD |-> <<5, 10>>, OIL |-> <<25, 100>>, BTC |-> <<25, 100>>]

ThreeOrders == {<<"GOLD", "OIL", "BTC">>, <<"GOLD", "BTC", "OIL">>}

\* its base prices: complete, without OIL, and with an OIL base price that
\* is zero or negative
ThreeBasePrices ==
    { [GOLD |-> <<1800, 1>>, OIL |-> <<75, 1>>, BTC |-> <<20000, 1>>],
      [GOLD |-> <<1800, 1>>, BTC |-> <<20000, 1>>],
      [GOLD |-> <<1800, 1>>, OIL |-> ZeroLit, BTC |-> <<20000, 1>>],
      [GOLD |-> <<1800, 1>>, OIL |-> <<-75, 1>>, BTC |-> <<20000, 1>>] }

ThreeConfigs ==
    { Cfg("Gold-Oil-Bitcoin Index", order, ThreeWeights, base_prices) :
        order \in ThreeOrders, base_prices \in ThreeBasePrices }

\* price maps for the three assets: each asset is absent or at one of two
\* quotes
ThreeQuotes ==
    [GOLD |-> {<<187083, 100>>, <<190012, 100>>},
     OIL  |-> {<<8013, 100>>, <<7845, 100>>},
     BTC  |-> {<<2879280, 100>>, <<27450, 1>>}]

MapsOver(quotes) ==
    UNION { {m \in [held -> UNION {quotes[symbol] : symbol \in held}] :
                \A symbol \in held : m[symbol] \in quotes[symbol]} :
            held \in SUBSET DOMAIN quotes }

\* the example prices restricted to every subset of the five assets
ExampleMaps ==
    { [symbol \in held |-> ExamplePrices[symbol]] : held \in SUBSET DOMAIN ExamplePrices }

\* the arguments of compute_level_normalized
LevelCalls ==
    [config : ThreeConfigs, prices : MapsOver(ThreeQuotes)]
    \cup [config : {gold_silver_oil_crypto}, prices : ExampleMaps]

\* previous prices: a base price, or a price that is zero or negative, or none
PrevQuotes ==
    [GOLD |-> {<<1800, 1>>, ZeroLit},
     OIL  |-> {<<75, 1>>, <<-75, 1>>},
     BTC  |-> {<<20000, 1>>}]

CurQuotes ==
    [GOLD |-> {<<187083, 100>>}, OIL |-> {<<7013, 100>>}, BTC |-> {<<27450, 1>>}]

LevelLits == {<<1000, 1>>, <<122072, 100>>}

\* the arguments of compute_return_index
\* calls of compute_return_index from the base: the previous prices are
\* the base prices of the configuration and the previous level its base level
FromBase(config, cur_prices) ==
    [config |-> config, prev_prices |-> config.base_prices, cur_prices |-> cur_prices,
     prev_index_level |-> config.base_level]

FromBaseCalls ==
    { FromBase(config, cur_prices) :
        config \in {c \in ThreeConfigs : \A symbol \in DOMAIN ThreeWeights :
                        symbol \in DOMAIN c.base_prices /\ c.base_prices[symbol][1] > 0},
        cur_prices \in MapsOver(ThreeQuotes) }
    \cup { FromBase(gold_silver_oil_crypto, ExamplePrices) }

ReturnCalls ==
    [config : {Cfg("Gold-Oil-Bitcoin Index", <<"GOLD", "OIL", "BTC">>, ThreeWeights,
                   [GOLD |-> <<1800, 1>>, OIL |-> <<75, 1>>, BTC |-> <<20000, 1>>])},
     prev_prices : MapsOver(PrevQuotes), cur_prices : MapsOver(CurQuotes),
     prev_index_level : LevelLits]
    \cup [config : {gold_silver_oil_crypto},
          prev_prices : {gold_silver_oil_crypto.base_prices},
          cur_prices : {ExamplePrices}, prev_index_level : {<<1000, 1>>}]
    \cup FromBaseCalls

\* the arguments of compute_index_delta_24h
DeltaLits ==
    {<<1200, 1>>, <<122072, 100>>, <<1000, 1>>, <<73734, 100>>, ZeroLit, <<-1000, 1>>}

DeltaCalls == [current_index : DeltaLits, prev_24h_index : DeltaLits]

DecMap(lits) == [symbol \in DOMAIN lits |-> Dec(lits[symbol])]

InitCompute ==
    /\ Started
    /\ index_configs = <<>>
    /\ fn = NoCall

\* calculator = IndexConfig.create_calculator(config);
\* calculator.compute_level_normalized(prices)
ComputeLevel(call) ==
    /\ fn.op = "none"
    /\ fn' = [op     |-> "compute_level_normalized",
              call   |-> call,
              result |-> compute_level_normalized(create_calculator(LoadConfig(call.config)),
                                                  DecMap(call.prices))]
    /\ UNCHANGED ConsumerVars

\* calculator.compute_return_index(prev_prices, cur_prices, prev_index_level)
ComputeReturn(call) ==
    /\ fn.op = "none"
    /\ fn' = [op     |-> "compute_return_index",
              call   |-> call,
              result |-> compute_return_index(create_calculator(LoadConfig(call.config)),
                                              DecMap(call.prev_prices),
                                              DecMap(call.cur_prices),
                                              Dec(call.prev_index_level))]
    /\ UNCHANGED ConsumerVars

\* calculator.compute_index_delta_24h(current_index, prev_24h_index)
ComputeDelta(call) ==
    /\ fn.op = "none"
    /\ fn' = [op     |-> "compute_index_delta_24h",
              call   |-> call,
              result |-> compute_index_delta_24h(Dec(call.current_index),
                                                 Dec(call.prev_24h_index))]
    /\ UNCHANGED ConsumerVars

\* the caller takes the result
Return ==
    /\ fn.op # "none"
    /\ fn' = NoCall
    /\ UNCHANGED ConsumerVars

NextCompute ==
    \/ \E call \in LevelCalls : ComputeLevel(call)
    \/ \E call \in ReturnCalls : ComputeReturn(call)
    \/ \E call \in DeltaCalls : ComputeDelta(call)
    \/ Return

SpecCompute == InitCompute /\ [][NextCompute]_vars

----------------------------------------------------------------------------
(* api/main.py: the application starts (lifespan) and answers requests to  *)
(* POST /v1/index/{name}/compute.                                          *)

HTTPException(status_code, detail) == [status_code |-> status_code, detail |-> detail]

\* get_db_service, get_sentient_service, get_metrics: the global, or the
\* HTTPException raised when it is not set
Depends(service, detail) ==
    IF service = None THEN HTTPException(503, detail) ELSE None

\* the first dependency that raises, in the order of the parameters
Dependencies(globals) ==
    IF Depends(globals.db_service, "") # None
    THEN Depends(globals.db_service, "Database service not available")
    ELSE IF Depends(globals.sentient_service, "") # None
    THEN Depends(globals.sentient_service, "Sentient LLM service not available")
    ELSE Depends(globals.metrics, "Metrics service not available")

\* the computation of compute_index, once the request is validated: the
\* index value, or the HTTPException of a return_based request without
\* previous state or of an unknown method
Computed(calculator, request) ==
    IF request.method = "level_normalized"
    THEN [raised |-> None,
          index_value |-> compute_level_normalized(calculator, DecMap(request.prices))]
    ELSE IF request.method = "return_based"
    THEN IF \/ request.prev_prices.none
            \/ DOMAIN request.prev_prices.value = {}
            \/ request.prev_index_level.none
         THEN [raised |-> HTTPException(400,
                   "Previous prices and index level required for return-based method")]
         ELSE [raised |-> None,
               index_value |-> compute_return_index(calculator,
                                                    DecMap(request.prev_prices.value),
                                                    DecMap(request.prices),
                                                    Dec(request.prev_index_level.value))]
    ELSE [raised |-> HTTPException(400, "Invalid calculation method")]

\* the index_data dict of compute_index: it has no delta_24h_pct, which
\* store_index_value reads with .get()
api_index_data(clock, name, index_value, request, config) ==
    [timestamp |-> clock, index_name |-> name, index_value |-> index_value,
     method |-> request.method, delta_24h_pct |-> None,
     payload |-> [prices |-> DecMap(request.prices), weights |-> config.weights,
                  base_prices |-> config.base_prices]]

\* what a request that raised leaves behind: the exception as the response,
\* the table as it was, no background task
Failed(raised, table) ==
    [response |-> raised, table |-> table, background_tasks |-> <<>>]

\* the response to a request whose computation returned or raised, the
\* table after it, and the tasks added to background_tasks
Stored(computed, table, clock, name, request, config, store_ok) ==
    IF computed.raised # None THEN Failed(computed.raised, table)
    ELSE IF ~store_ok
    THEN Failed(HTTPException(500, "Internal server error"), table)
    ELSE [response |-> [status_code |-> 200, index_name |-> name,
                        index_value |-> computed.index_value, timestamp |-> clock,
                        method |-> request.method],
          table |-> store_index_value(table,
                        api_index_data(clock, name, computed.index_value, request,
                                       config)),
          background_tasks |-> << [func |-> "generate_insights", name |-> name,
                                   index_value |-> computed.index_value] >>]

\* (the body as it would be without the check of validate_prices)
ComputeWithUnvalidated(calculator, table, clock, name, request, config, store_ok) ==
    IF calculator.raised # ""
    THEN Failed(HTTPException(500, "Internal server error"), table)
    ELSE Stored(Computed(calculator, request), table, clock, name, request, config,
                store_ok)

\* the body of compute_index with the calculator of the configuration
ComputeWith(calculator, table, clock, name, request, config, store_ok) ==
    IF calculator.raised # ""
    THEN Failed(HTTPException(500, "Internal server error"), table)
    ELSE IF ~validate_prices(calculator, DecMap(request.prices)).ok
    THEN Failed(HTTPException(400, "Invalid price data"), table)
    ELSE Stored(Computed(calculator, request), table, clock, name, request, config,
                store_ok)

\* DatabaseService.get_index_config on the table index_configs, which holds
\* what the consumer stored when it loaded its configurations
get_index_config(configs, name) ==
    IF \E i \in 1..Len(configs) : configs[i].name = name
    THEN configs[CHOOSE i \in 1..Len(configs) : configs[i].name = name].config
    ELSE None

\* the body of compute_index from the calculator on
ComputeFor(config, table, clock, name, request, store_ok) ==
    ComputeWith(create_calculator(config), table, clock, name, request, config,
                store_ok)

\* the body of compute_index; store_ok is whether the database accepts the
\* write
compute_index(configs, table, clock, name, request, store_ok) ==
    IF \A i \in 1..Len(configs) : configs[i].name # name
    THEN Failed(HTTPException(404, "Index not found"), table)
    ELSE ComputeFor(get_index_config(configs, name), table, clock, name, request,
                    store_ok)

\* what FastAPI answers: the exception of a dependency, or the body's result
Answer(raised, globals, configs, table, clock, name, request, store_ok) ==
    IF raised # None THEN Failed(raised, table)
    ELSE compute_index(configs, table, clock, name, request, store_ok)

\* lifespan, up to the yield: db_service and metrics are declared global
\* and assigned; sentient_service is not in the global statement, so its
\* assignment binds a local of lifespan and the module's name stays None
lifespan ==
    /\ ~api.started
    /\ api' = [api EXCEPT !.started = TRUE,
                          !.db_service = [object |-> "DatabaseService"],
                          !.metrics = [object |-> "MetricsCollector"]]
    /\ UNCHANGED <<price_cache, index_configs, pc, idx, index_values, now, received,
                   source_error_rate, index_calculations_total, insight_tasks,
                   cycle, newest, fn, insight_ended, insights, insight_reply,
                   llm_requests_total, stopped>>

\* requests: the index named in the path, and the IndexRequest body
ApiNames == IndexNames \cup {"silver"}

ApiMethods == {"level_normalized", "return_based", "median"}

ApiPriceMaps == MapsOver([GOLD |-> {<<190012, 100>>, ZeroLit}, OIL |-> OilLits])

\* an Optional field that is given
Some(x) == [none |-> FALSE, value |-> x]

ApiPrevPrices == {None, Some(<<>>), Some(BasePrices)}

ApiPrevLevels == {None, Some(<<1000, 1>>)}

IndexRequest ==
    [method : ApiMethods, prices : ApiPriceMaps, prev_prices : ApiPrevPrices,
     prev_index_level : ApiPrevLevels]

\* POST /v1/index/{name}/compute on the started application
ComputeRequest(name, request) ==
    /\ api.started
    /\ \E store_ok \in BOOLEAN :
          LET answer == Answer(Dependencies(api), api, index_configs, index_values,
                               now, name, request, store_ok)
          IN  /\ api' = [api EXCEPT !.request = [name |-> name, body |-> request],
                                    !.response = answer.response,
                                    !.background_tasks = answer.background_tasks]
              /\ index_values' = answer.table
    /\ UNCHANGED <<price_cache, index_configs, pc, idx, now, received,
                   source_error_rate, index_calculations_total, insight_tasks,
                   cycle, newest, fn, insight_ended, insights, insight_reply,
                   llm_requests_total, stopped>>

InitApi ==
    /\ Started
    /\ index_configs \in ConfigChoices
    /\ fn = NoCall

NextApi ==
    \/ lifespan
    \/ \E name \in ApiNames, request \in IndexRequest : ComputeRequest(name, request)

SpecApi == InitApi /\ [][NextApi]_vars

\* a request that is answered 200 for the index gold_oil
EarlierRequest ==
    [method |-> "level_normalized",
     prices |-> [GOLD |-> <<190012, 100>>, OIL |-> <<7845, 100>>],
     prev_prices |-> None, prev_index_level |-> None]

\* the table index_values before a request: new, or with the row of an
\* earlier request
EarlierRows(configs) ==
    {NoRows, compute_index(configs, NoRows, 0, "gold_oil", EarlierRequest, TRUE).table}

InitHandler ==
    /\ index_configs \in ConfigChoices
    /\ \E stored_values \in EarlierRows(index_configs) : StartedOver(stored_values, <<>>)
    /\ fn = NoCall

\* compute_index called with its parameters given (db, sentient_service and
\* metrics are arguments of the function; Depends is only their default):
\* the body runs on the table as it is
ComputeCall(name, request) ==
    /\ api.request = None
    /\ \E store_ok \in BOOLEAN :
          LET answer == compute_index(index_configs, index_values, now, name, request,
                                      store_ok)
          IN  /\ api' = [api EXCEPT !.request = [name |-> name, body |-> request],
                                    !.response = answer.response,
                                    !.background_tasks = answer.background_tasks]
              /\ index_values' = answer.table
    /\ UNCHANGED <<price_cache, index_configs, pc, idx, now, received,
                   source_error_rate, index_calculations_total, insight_tasks,
                   cycle, newest, fn, insight_ended, insights, insight_reply,
                   llm_requests_total, stopped>>

NextHandler ==
    \E name \in ApiNames, request \in IndexRequest : ComputeCall(name, request)

SpecHandler == InitHandler /\ [][NextHandler]_vars

----------------------------------------------------------------------------
(* The consumer with its insight tasks: a task created by                  *)
(* _calculate_indices runs on the event loop beside _consume_messages, and *)
(* ends or does not.                                                       *)

\* a _generate_insights task runs to its end.  self.sentient_service is set
\* by _init_services; SentientLLMService.generate_insights raises (it reads
\* self.grid_config, which is never assigned, and it re-raises the errors
\* of the HTTP call), and _generate_insights catches the exception and logs
\* it.  A task whose HTTP call does not return takes no step.
\* SentientLLMService.__init__: the attributes it assigns
SentientLLMService ==
    {"config", "sentient_config", "metrics", "client", "prompt_template",
     "response_schema"}

\* what the Sentient API can answer to client.post: no answer within the
\* timeout, a text without a JSON object, and JSON objects: one that passes
\* _validate_schema, and ones with a sentiment that is none of the three,
\* with a summary of 201 characters, with notable_events that is a string,
\* and without the field sentiment.  A summary is held as its length.
Timeout == [kind |-> "timeout"]
NoJson == [kind |-> "content", json |-> FALSE]
EventList == [type |-> "array", items |-> <<>>]
InsightData(btc, summary_chars, events) ==
    [index |-> "1216.84", index_delta_24h_pct |-> "0.0",
     summary |-> [type |-> "string", chars |-> summary_chars],
     notable_events |-> events, sentiment |-> [BTC |-> btc, ETH |-> "neutral"]]
InsightFields(btc) == InsightData(btc, 6, EventList)
Content(data) == [kind |-> "content", json |-> TRUE, data |-> data]
BadSentiment == Content(InsightFields("bullish"))
LongSummary == Content(InsightData("positive", 201, EventList))
EventsNotList == Content(InsightData("positive", 6, [type |-> "string", chars |-> 4]))
NoSentiment == Content([index |-> "1216.84", index_delta_24h_pct |-> "0.0", summary |-> [type |-> "string", chars |-> 6], notable_events |-> EventList])
ValidReply == Content(InsightFields("positive"))
Replies == {Timeout, NoJson, BadSentiment, LongSummary, EventsNotList, NoSentiment, ValidReply}

valid_sentiments == {"positive", "negative", "neutral"}

required_fields == {"index", "index_delta_24h_pct", "summary", "notable_events", "sentiment"}

MaxSummary == 200

\* (validation as it would be without the checks of the summary, the events
\* and the sentiment)
validate_schema_fields_only(data) == required_fields \subseteq DOMAIN data

\* SentientLLMService._validate_schema: whether it returns without raising
validate_schema(data) ==
    /\ required_fields \subseteq DOMAIN data
    /\ \A asset \in DOMAIN data.sentiment : data.sentiment[asset] \in valid_sentiments
    /\ data.summary.chars <= MaxSummary
    /\ data.notable_events.type = "array"

\* SentientLLMService._parse_response with _extract_json and _validate_schema
parse_response(reply) ==
    IF ~reply.json THEN [raised |-> "ValueError"]
    ELSE IF ~validate_schema(reply.data) THEN [raised |-> "ValueError"]
    ELSE [raised |-> "", insights |-> reply.data]

GenerateFailed(exception, status) == [raised |-> exception, status |-> status]

\* SentientLLMService.generate_insights on the service object self, when
\* the Sentient API has reply to answer: the argument of metrics.timer reads
\* self.grid_config before anything is sent
generate_insights(self, reply) ==
    IF "grid_config" \notin self THEN GenerateFailed("AttributeError", "error")
    ELSE IF reply.kind = "timeout" THEN GenerateFailed("HTTPError", "api_error")
    ELSE IF parse_response(reply).raised # ""
         THEN GenerateFailed("ValueError", "error")
         ELSE [raised |-> "", status |-> "success",
               insights |-> parse_response(reply).insights]

\* DatabaseService.store_insights: INSERT INTO insights (index_name,
\* timestamp, insights) VALUES ($1, NOW(), $2)
store_insights(table, index_name, response, clock) ==
    Append(table, [index_name |-> index_name, timestamp |-> clock,
                   insights |-> response])

\* DatabaseService.get_latest_insights: the rows the query can return,
\* ORDER BY timestamp DESC LIMIT 1 leaving rows of one timestamp in any
\* order; the empty set is the result None
get_latest_insights(table, index_name) ==
    LET rows == {i \in DOMAIN table : table[i].index_name = index_name}
    IN  {[insights |-> table[i].insights, timestamp |-> table[i].timestamp] :
            i \in {j \in rows : \A k \in rows : table[k].timestamp <= table[j].timestamp}}

\* (the task as it would be if its except branch stored a placeholder)
InsightsStoredFallback(table, index_name, generated, clock, store_ok) ==
    IF generated.raised # ""
    THEN store_insights(table, index_name, InsightFields("neutral"), clock)
    ELSE table

\* the table insights after the try block of _generate_insights, generated
\* being what sentient_service.generate_insights returned or raised
InsightsStored(table, index_name, generated, clock, store_ok) ==
    IF generated.raised = "" /\ store_ok
    THEN store_insights(table, index_name, generated.insights, clock)
    ELSE table

\* A task created by asyncio.create_task(self._generate_insights(...)) runs
\* to its end
GenerateInsightsWith(index_name, reply, generated) ==
    /\ insight_ended[index_name] < insight_tasks[index_name]
    /\ insight_ended' = Bump(insight_ended, index_name)
    /\ llm_requests_total' = Bump(llm_requests_total, generated.status)
    /\ \E store_ok \in BOOLEAN :
          /\ insight_reply' = [insight_reply EXCEPT
                                  ![index_name] = [reply |-> reply, store_ok |-> store_ok]]
          /\ insights' = InsightsStored(insights, index_name, generated, now, store_ok)
    /\ UNCHANGED <<price_cache, index_configs, pc, idx, index_values, now, received,
                   source_error_rate, index_calculations_total, insight_tasks,
                   cycle, newest, fn, stopped, api>>

GenerateInsights(index_name, reply) ==
    GenerateInsightsWith(index_name, reply, generate_insights(SentientLLMService, reply))

\* the messages of this specification: GOLD at either price from one
\* source, OIL, and a message without a price
InsightValues ==
    { value \in ValidValues \cup MalformedValues :
        /\ value.timestamp = 2
        /\ value.source = "AlphaVantage" \/ "price" \notin DOMAIN value }

\* what the table insights can hold when the consumer starts
EarlierInsights ==
    {<<>>, <<[index_name |-> "gold_oil", timestamp |-> 0,
              insights |-> InsightFields("negative")]>>}

InitInsight ==
    /\ \E stored_insights \in EarlierInsights : StartedWith(stored_insights)
    /\ index_configs \in ConfigChoices
    /\ fn = NoCall

NextInsight ==
    \/ \E value \in InsightValues : ConsumeMessage(value)
    \/ CalculateIndex
    \/ \E index_name \in IndexNames, reply \in Replies :
          GenerateInsights(index_name, reply)

SpecInsight == InitInsight /\ [][NextInsight]_vars

----------------------------------------------------------------------------
(* The consumer while run_forever leaves through its finally clause *)

\* the awaits of stop() that can raise: kafka_consumer.stop() and
\* redis_client.close(); DatabaseService.disconnect catches what its closes
\* raise
can_raise(stop_steps) == stop_steps < 2

\* (stop() as it would be with each close in a try block of its own: the
\* closes that follow a failed one are still awaited)
stop_after_each_close(stop_steps, raised) ==
    [awaits |-> stop_steps + 1, ended |-> stop_steps + 1 = 3]

\* stop() after one more of its awaits has returned or raised: the three are
\* in one try block, so an exception takes stop() to its except clause, which
\* logs it, and stop() returns without the awaits that follow
stop_after(stop_steps, raised) ==
    IF raised THEN [awaits |-> stop_steps, ended |-> TRUE]
    ELSE [awaits |-> stop_steps + 1, ended |-> stop_steps + 1 = 3]

\* One of the three awaits of stop() returns or raises.  stop() runs in the
\* task of run_forever; the task of _consume_messages, created by
\* asyncio.create_task, is neither awaited nor cancelled by it and goes on
\* whenever stop() is suspended.
StopStep ==
    /\ ~stopped.ended
    /\ \E raised \in BOOLEAN :
          /\ raised => can_raise(stopped.awaits)
          /\ stopped' = stop_after(stopped.awaits, raised)
    /\ UNCHANGED <<price_cache, index_configs, pc, idx, index_values, now, received,
                   source_error_rate, index_calculations_total, insight_tasks,
                   cycle, newest, fn, insight_ended, insights, insight_reply,
                   llm_requests_total, api>>

NextShutdown ==
    \/ \E value \in InsightValues : ConsumeMessage(value)
    \/ CalculateIndex
    \/ StopStep

SpecShutdown == Init /\ [][NextShutdown]_vars

----------------------------------------------------------------------------
(* Properties *)

Configured == {index_configs[i].name : i \in 1..Len(index_configs)}

ConfigOf(n) ==
    index_configs[CHOOSE i \in 1..Len(index_configs) : index_configs[i].name = n].config

ConfiguredSymbols(n) == OrderSet(ConfigOf(n).order)

\* what _get_latest_prices_for_index answers for index n on the cache as it is
Snapshot(n) == get_latest_prices_for_index(price_cache, ConfigOf(n))

\* the symbols some cache entry is about
HeldSymbols == {price_cache[i].val.symbol : i \in 1..Len(price_cache)}

\* the pass over the indices that the latest message started has ended
PassEnded == pc = "idle" /\ cycle.status = "pass"

\* a price map with a price > 0 for every configured symbol of index n
CompletePositive(prices, n) ==
    \A symbol \in ConfiguredSymbols(n) :
        symbol \in DOMAIN prices /\ FGt(prices[symbol], FZero)

\* nothing of index n's own iteration fails: the calculator can be built, the
\* snapshot passes validation and the database accepted the write
OwnStepsSucceed(n) ==
    /\ Memo.calculator[ConfigOf(n)].raised = ""
    /\ CompletePositive(Snapshot(n), n)
    /\ cycle.outcome[n] # "store_error"

\* the table holds the result of index n computed in the latest cycle
PersistedThisCycle(n) ==
    /\ <<cycle.stamp[n], n>> \in DOMAIN index_values
    /\ index_values[<<cycle.stamp[n], n>>].payload.prices = Snapshot(n)
    /\ index_values[<<cycle.stamp[n], n>>].method = "level_normalized"

\* C1: per-index isolation.  When a pass over the configured indices has
\* ended, every configured index was attempted in it, whatever raised for
\* another index, and every index whose own steps succeed has its result in
\* the table.
C1_PerIndexIsolation ==
    PassEnded =>
        \A n \in Configured :
            /\ cycle.attempts[n] = 1
            /\ OwnStepsSucceed(n) => PersistedThisCycle(n)

\* C1 witness: the write of gold_oil failed and gold_only was persisted in
\* the same pass
C1_WriteFailedOtherPersisted ==
    /\ PassEnded
    /\ cycle.outcome["gold_oil"] = "store_error"
    /\ cycle.outcome["gold_only"] = "persisted"
    /\ PersistedThisCycle("gold_only")

\* C2: price cache update rule.  When the observation stored for the symbol
\* of an incoming observation is strictly newer than the incoming one, the
\* update leaves the stored observation in place.
C2_StoredNewerIsKept ==
    [][\A value \in ValidValues :
          (/\ ConsumeMessage(value)
           /\ latest_price(price_cache, value.symbol) # None
           /\ latest_price(price_cache, value.symbol).timestamp > value.timestamp)
          => latest_price(price_cache', value.symbol)
                 = latest_price(price_cache, value.symbol)]_vars

\* C3: older never overwrites newer.  After any sequence of updates, the
\* snapshot price of a symbol is a price received with the greatest
\* observed_at received for that symbol.
C3_SnapshotIsNewest ==
    \A n \in Configured :
        \A symbol \in DOMAIN Snapshot(n) :
            /\ newest[symbol] # None
            /\ Snapshot(n)[symbol] \in newest[symbol].prices

EntriesFor(symbol) == {i \in 1..Len(price_cache) : price_cache[i].val.symbol = symbol}

C5_SnapshotNeverFabricates ==
    \A n \in Configured :
        cycle.attempts[n] > 0 =>
            /\ DOMAIN cycle.prices[n] = ConfiguredSymbols(n) \cap HeldSymbols
            /\ \A symbol \in DOMAIN cycle.prices[n] :
                  \E i \in EntriesFor(symbol) :
                      price_cache[i].val.price = cycle.prices[n][symbol]

\* C5 witness: a snapshot was taken for gold_oil while only GOLD was held
C5_PartialSnapshotTaken ==
    /\ cycle.attempts["gold_oil"] > 0
    /\ DOMAIN cycle.prices["gold_oil"] = {"GOLD"}
    /\ "OIL" \notin HeldSymbols

\* C6: total recomputation.  Once the handling of a message that parsed into
\* an observation is over, every configured index has been attempted exactly
\* once for it.
C6_TotalRecomputation ==
    (pc = "idle" /\ cycle.status \in {"pass", "redis_error"}) =>
        \A n \in Configured : cycle.attempts[n] = 1

RowsFromValidSnapshots ==
    \A k \in DOMAIN index_values : CompletePositive(index_values[k].payload.prices, k[2])

RECURSIVE LitSumFrom(_, _, _)
LitSumFrom(order, lits, i) ==
    IF i = 0 THEN 0 ELSE LitSumFrom(order, lits, i - 1) + lits[order[i]]

\* the sum of the weights as written, in thousandths
LitSum == LitSumFrom(fn.order, fn.lits, Len(fn.order))

\* C9: construction succeeds exactly for the weight mappings whose sum is
\* within 0.001 of 1.0, the boundary included.
C9_ConstructionWithinTolerance ==
    fn.op \in {"constructed", "validated"} =>
        (fn.calc.raised = "" <=> (LitSum >= 999 /\ LitSum <= 1001))

\* C10 as claimed: validation fails if a configured symbol is missing or any
\* price of the map is <= 0, and succeeds with an empty reason otherwise.
C10_ValidateAnyPrice ==
    fn.op = "validated" =>
        LET bad == \/ \E symbol \in OrderSet(fn.order) :
                         symbol \notin DOMAIN fn.price_lits
                   \/ \E symbol \in DOMAIN fn.price_lits :
                         fn.price_lits[symbol][1] <= 0
        IN  IF bad THEN ~fn.result.ok
            ELSE fn.result.ok /\ fn.result.reason = ""

\* C10 as amended: validation fails if a configured symbol is missing or the
\* price of a configured symbol is <= 0, and succeeds with an empty reason
\* otherwise; prices of symbols outside the weight mapping are not looked at.
C10_ValidateConfiguredPrices ==
    fn.op = "validated" =>
        LET bad == \E symbol \in OrderSet(fn.order) :
                      \/ symbol \notin DOMAIN fn.price_lits
                      \/ fn.price_lits[symbol][1] <= 0
        IN  IF bad THEN ~fn.result.ok
            ELSE fn.result.ok /\ fn.result.reason = ""

\* C10 witness: validation refused a map for the price 0 of a configured
\* symbol
C10_RefusedForZeroPrice ==
    /\ fn.op = "validated"
    /\ OrderSet(fn.order) \subseteq DOMAIN fn.price_lits
    /\ \E symbol \in OrderSet(fn.order) : fn.price_lits[symbol] = ZeroLit
    /\ ~fn.result.ok

----------------------------------------------------------------------------
(* Exact arithmetic on the decimal literals of a call, to state what the   *)
(* calculator's results are results of: a fraction is num/den with both    *)
(* naturals, den > 0.                                                      *)

Frac(n, d) == [num |-> NatFromInt(n), den |-> NatFromInt(d)]

FracZero == Frac(0, 1)

FracAdd(a, b) ==
    [num |-> AddNat(MulNat(a.num, b.den), MulNat(b.num, a.den)),
     den |-> MulNat(a.den, b.den)]

\* a - b for a >= b
FracSub(a, b) ==
    [num |-> SubNat(MulNat(a.num, b.den), MulNat(b.num, a.den)),
     den |-> MulNat(a.den, b.den)]

FracMul(a, b) == [num |-> MulNat(a.num, b.num), den |-> MulNat(a.den, b.den)]

\* a / b for b > 0
FracDiv(a, b) == [num |-> MulNat(a.num, b.den), den |-> MulNat(a.den, b.num)]

FracLe(a, b) == CmpNat(MulNat(a.num, b.den), MulNat(b.num, a.den)) <= 0

\* the sum of term[s] over the symbols s of a set
RECURSIVE FracSum(_, _)
FracSum(symbols, term) ==
    IF symbols = {} THEN FracZero
    ELSE LET s == CHOOSE t \in symbols : TRUE
         IN  FracAdd(term[s], FracSum(symbols \ {s}, term))

\* the natural nearest to |x| * scale, for a double x
Scaled(x, scale) ==
    IF x.man = <<>> THEN <<>>
    ELSE IF x.exp >= 0 THEN ShiftLeft(MulSmall(x.man, scale), x.exp)
    ELSE ShiftRight(AddNat(MulSmall(x.man, scale), ShiftLeft(<<1>>, (0 - x.exp) - 1)),
                    0 - x.exp)

\* x is the double of a decimal with the digits of scale (100: two
\* decimals), and no decimal of that many digits is nearer to the exact
\* value: |x - exact| <= 1 / (2 * scale), x >= 0
NearestDecimal(x, exact, scale) ==
    LET q == Scaled(x, scale)
        a == MulNat(q, exact.den)
        b == MulSmall(exact.num, scale)
        diff == IF CmpNat(a, b) >= 0 THEN SubNat(a, b) ELSE SubNat(b, a)
    IN  /\ x.sgn = 0
        /\ x = FromRatioNat(q, scale)
        /\ CmpNat(MulSmall(diff, 2), exact.den) <= 0

Lit(l) == Frac(l[1], l[2])

\* the symbols of a configuration that a price map covers and that have a
\* base price above zero
Remaining(config, prices) ==
    { s \in DOMAIN config.weights :
        /\ s \in DOMAIN prices
        /\ s \in DOMAIN config.base_prices
        /\ config.base_prices[s][1] > 0 }

\* base_level * sum over the remaining symbols of (price/base_price) * weight
ExactLevel(config, prices) ==
    LET symbols == Remaining(config, prices)
    IN  FracMul(Lit(config.base_level),
                FracSum(symbols,
                        [s \in symbols |->
                            FracMul(FracDiv(Lit(prices[s]), Lit(config.base_prices[s])),
                                    Lit(config.weights[s]))]))

LevelCalled == fn.op = "compute_level_normalized"

\* C11: compute_level_normalized skips, without error, each configured
\* symbol that the price map lacks or whose base price is missing or <= 0,
\* and returns the two-decimal rounding of base_level times the sum of
\* (price/base_price) * weight over the remaining symbols; the example
\* prices without BTC and ETH give the value of GOLD, SILVER and OIL, 737.34
C11_PartialCoverage ==
    LevelCalled =>
        /\ NearestDecimal(fn.result, ExactLevel(fn.call.config, fn.call.prices), 100)
        /\ (/\ fn.call.config = gold_silver_oil_crypto
            /\ DOMAIN fn.call.prices = {"GOLD", "SILVER", "OIL"})
           => fn.result = FromRatio(73734, 100)

\* a call whose prices lack BTC and quote OIL, with an OIL base price that
\* is not above zero, has returned a level above zero
C11_SkippedAndValued ==
    /\ LevelCalled
    /\ fn.result # FZero
    /\ DOMAIN fn.call.prices = {"GOLD", "OIL"}
    /\ "OIL" \in DOMAIN fn.call.config.base_prices
    /\ fn.call.config.base_prices["OIL"][1] <= 0

\* the call of the usage example: the default configuration on its prices
ExampleLevelCall ==
    /\ LevelCalled
    /\ fn.call.config = gold_silver_oil_crypto
    /\ fn.call.prices = ExamplePrices

\* C12 (as stated): with the default weights, base prices and base level
\* 1000, the prices GOLD 1900.12, SILVER 24.31, OIL 78.45, BTC 27450,
\* ETH 1850 give 1216.84, up to rounding in the last digit
C12_ExampleIs121684 ==
    ExampleLevelCall =>
        fn.result \in {FromRatio(121683, 100), FromRatio(121684, 100),
                       FromRatio(121685, 100)}

\* C12 (amended): the same call gives 1220.72
C12_ExampleIs122072 ==
    ExampleLevelCall => fn.result = FromRatio(122072, 100)

\* the example call has been made and has returned a level above 1000
C12_ExampleComputed ==
    /\ ExampleLevelCall
    /\ FGt(fn.result, FromRatio(1000, 1))

\* the insertion orders of a mapping with the keys of order
Reorderings(order) ==
    { [i \in 1..Len(order) |-> order[p[i]]] : p \in Permutations(1..Len(order)) }

\* C13: compute_level_normalized gives the same result for every insertion
\* order of the weights mapping, on every price map
C13_OrderInvariant ==
    LevelCalled =>
        \A order \in Reorderings(fn.call.config.order) :
            compute_level_normalized(
                create_calculator(LoadConfig([fn.call.config EXCEPT !.order = order])),
                DecMap(fn.call.prices)) = fn.result

\* the symbols of a configuration that both price maps cover, with a
\* previous price above zero
InBoth(config, prev_prices, cur_prices) ==
    { s \in DOMAIN config.weights :
        /\ s \in DOMAIN prev_prices
        /\ s \in DOMAIN cur_prices
        /\ prev_prices[s][1] > 0 }

\* the sum of (|cur - prev| / prev) * weight over the symbols of a set
ExactMoves(config, prev_prices, cur_prices, symbols) ==
    FracSum(symbols,
            [s \in symbols |->
                LET cur  == Lit(cur_prices[s])
                    prev == Lit(prev_prices[s])
                    move == IF FracLe(prev, cur) THEN FracSub(cur, prev)
                            ELSE FracSub(prev, cur)
                IN  FracMul(FracDiv(move, prev), Lit(config.weights[s]))])

\* prev_index_level * (1 + the weighted return): the rises are added and the
\* falls subtracted (the falls of the calls made are below 1 + the rises)
ExactReturn(config, prev_prices, cur_prices, prev_index_level) ==
    LET symbols == InBoth(config, prev_prices, cur_prices)
        rises   == { s \in symbols : FracLe(Lit(prev_prices[s]), Lit(cur_prices[s])) }
    IN  FracMul(Lit(prev_index_level),
                FracSub(FracAdd(Frac(1, 1),
                                ExactMoves(config, prev_prices, cur_prices, rises)),
                        ExactMoves(config, prev_prices, cur_prices, symbols \ rises)))

ReturnCalled == fn.op = "compute_return_index"

\* C14: compute_return_index returns the four-decimal rounding of
\* prev_index_level * (1 + sum of ((cur - prev) / prev) * weight over the
\* symbols in both maps with prev > 0); the other symbols contribute
\* nothing and raise nothing.  From the base prices to the example prices
\* at level 1000 it returns 1220.7197.
C14_ReturnIndex ==
    ReturnCalled =>
        /\ NearestDecimal(fn.result,
                          ExactReturn(fn.call.config, fn.call.prev_prices,
                                      fn.call.cur_prices, fn.call.prev_index_level),
                          10000)
        /\ fn.call.config = gold_silver_oil_crypto
           => fn.result = FromRatio(12207197, 10000)

\* a call in which GOLD had a previous price of zero and OIL no current
\* price has returned a level other than the previous one
C14_SkippedAndMoved ==
    /\ ReturnCalled
    /\ "GOLD" \in DOMAIN fn.call.prev_prices
    /\ fn.call.prev_prices["GOLD"] = ZeroLit
    /\ "GOLD" \in DOMAIN fn.call.cur_prices
    /\ "OIL" \in DOMAIN fn.call.prev_prices
    /\ "OIL" \notin DOMAIN fn.call.cur_prices
    /\ fn.result # Dec(fn.call.prev_index_level)

\* a literal of DeltaLits in hundredths
Hundredths(l) == l[1] * (100 \div l[2])

DeltaCalled == fn.op = "compute_index_delta_24h"

\* C15: compute_index_delta_24h(current, past) returns the two-decimal
\* rounding of ((current - past) / past) * 100 when past > 0, and 0.0,
\* raising nothing, when past <= 0; (1200, 0) gives 0.0 and
\* (1220.72, 1000) gives 22.07
C15_Delta24h ==
    DeltaCalled =>
        LET current == Hundredths(fn.call.current_index)
            past    == Hundredths(fn.call.prev_24h_index)
            change  == IF current >= past THEN current - past ELSE past - current
        IN  /\ past <= 0 => fn.result = FZero
            /\ past > 0 =>
                /\ NearestDecimal(FAbs(fn.result), Frac(change * 100, past), 100)
                /\ fn.result # FZero => (fn.result.sgn = 1 <=> current < past)
            /\ (current = 122072 /\ past = 100000) => fn.result = FromRatio(2207, 100)

\* the call (1200, 0) has returned 0.0
C15_ZeroForZeroPast ==
    /\ DeltaCalled
    /\ fn.call.current_index = <<1200, 1>>
    /\ fn.call.prev_24h_index = ZeroLit
    /\ fn.result = FZero

\* C16: every row the streaming loop has persisted has the method
\* level_normalized (the loop's one call of the calculator's computations
\* is compute_level_normalized)
C16_StreamingIsLevelNormalized ==
    \A k \in DOMAIN index_values : index_values[k].method = "level_normalized"

\* the loop has persisted rows for two indices
C16_RowsPersisted ==
    /\ PassEnded
    /\ \A n \in IndexNames : PersistedThisCycle(n)

\* a request that names a configured index, with prices that validate,
\* the method return_based, previous prices and a previous index level
ValidReturnBased(name, body) ==
    /\ name \in Configured
    /\ create_calculator(ConfigOf(name)).raised = ""
    /\ validate_prices(create_calculator(ConfigOf(name)), DecMap(body.prices)).ok
    /\ body.method = "return_based"
    /\ ~body.prev_prices.none
    /\ DOMAIN body.prev_prices.value # {}
    /\ ~body.prev_index_level.none

\* C17: on the started API, a compute request for an existing index with
\* the method return_based, valid prices, previous prices and a previous
\* index level is computed by compute_return_index and persisted with the
\* method return_based (or answered 500 when the database refuses the write)
C17_ReturnBasedReachable ==
    (/\ api.response # None
     /\ ValidReturnBased(api.request.name, api.request.body))
    => \/ api.response.status_code = 500
       \/ /\ api.response.status_code = 200
          /\ \E k \in DOMAIN index_values :
                /\ k[2] = api.request.name
                /\ index_values[k].method = "return_based"

\* the row that store_index_value writes for a dict
RowOf(data) ==
    [index_value |-> data.index_value, method |-> data.method,
     delta_24h_pct |-> data.delta_24h_pct, payload |-> data.payload]

\* C18: store_index_value is an upsert on (timestamp, index_name), the
\* primary key of the table: a store leaves the row of its key holding the
\* fields of that call, whether or not the key was there before, adds no
\* other key and leaves the rows of the other keys as they were; the same
\* store once more changes nothing
C18_IdempotentUpsert ==
    [][(/\ pc = "calc"
        /\ cycle'.outcome[index_configs[idx].name] = "persisted")
       => LET data == cycle'.stored[index_configs[idx].name]
              key  == <<data.timestamp, data.index_name>>
          IN  /\ data.index_name = index_configs[idx].name
              /\ DOMAIN index_values' = DOMAIN index_values \cup {key}
              /\ index_values'[key] = RowOf(data)
              /\ \A k \in DOMAIN index_values \ {key} :
                    index_values'[k] = index_values[k]
              /\ store_index_value(index_values', data) = index_values']_vars

\* an index has been stored twice with one timestamp and has one row, which
\* holds the snapshot of the second store
C18_StoredTwiceOneRow ==
    \E n \in IndexNames :
        /\ PassEnded
        /\ index_calculations_total[n] = 2
        /\ Cardinality(RowTimes(index_values, n)) = 1
        /\ PersistedThisCycle(n)

InsightsPending == \E n \in IndexNames : insight_ended[n] < insight_tasks[n]

\* C20: insight generation never blocks or fails price processing.  With
\* insight tasks pending or ended in error, a pass that has begun can take
\* its next iteration and, between passes, every message can be received;
\* and the end of a task changes neither the price cache, the persisted
\* rows, the loop's position nor its error counters.
C20_InsightsNeverBlock ==
    /\ [](/\ pc = "calc" => ENABLED CalculateIndex
          /\ (pc = "idle" /\ received < MaxMsgs) =>
                \A value \in InsightValues : ENABLED ConsumeMessage(value))
    /\ [][insight_ended' # insight_ended =>
            UNCHANGED <<price_cache, index_values, pc, idx, received, cycle,
                        source_error_rate, index_calculations_total>>]_vars

\* a second message has been received, cached and recomputed, and its
\* result persisted, while of the two insight tasks of an index one has
\* ended in an error and the other has not ended
C20_ProcessedWhilePending ==
    \E n \in IndexNames :
        /\ PassEnded
        /\ received = 2
        /\ PersistedThisCycle(n)
        /\ insight_tasks[n] = 2
        /\ insight_ended[n] = 1

\* the answers of the Sentient API that are no schema-valid response
InvalidReplies == Replies \ {ValidReply}

\* C21: a _generate_insights task whose call of the Sentient API times out,
\* or is answered by a text without JSON or by an object that violates the
\* schema, ends and persists nothing: the table insights is what it was, and
\* get_latest_insights returns for every index what it returned before.
C21_FailedInsightPersistsNothing ==
    [][\A n \in IndexNames :
          insight_ended'[n] > insight_ended[n] /\ insight_reply'[n].reply \in InvalidReplies
          => /\ insights' = insights
             /\ \A m \in IndexNames :
                   get_latest_insights(insights', m) = get_latest_insights(insights, m)]_vars

\* a task ended on a failed call while earlier insights of its index are stored
C21_FailedOverEarlierInsights ==
    \E n \in IndexNames :
        /\ insight_ended[n] > 0
        /\ insight_reply[n].reply \in InvalidReplies
        /\ get_latest_insights(insights, n) # {}

\* C22: a _generate_insights task that the Sentient API would answer with a
\* schema-valid object, at a time when the database takes the write, has
\* stored that object by the time it ends, and get_latest_insights of its
\* index returns it.
C22_ValidResponsePersisted ==
    \A n \in IndexNames :
        /\ insight_ended[n] > 0
        /\ insight_reply[n].reply = ValidReply
        /\ insight_reply[n].store_ok
        => \E latest \in get_latest_insights(insights, n) :
              latest.insights = ValidReply.data

\* C23: shutdown lets the pass in flight finish before the persistence
\* connection is closed: when db_service.disconnect() has returned, no pass
\* of _calculate_indices is under way with indices still to compute and
\* persist.
C23_GracefulShutdown == ~db_connected(stopped.awaits) => pc = "idle"

\* C24: messages are handled one at a time in the order of delivery: a
\* message is received, and the cache changed, only while no pass of
\* _calculate_indices is under way, and received counts up by one; so every
\* snapshot taken in the pass of the latest message is the snapshot of the
\* cache as the messages received so far have left it.
C24_SequentialProcessing ==
    /\ [](\A n \in Configured :
             cycle.attempts[n] > 0 => cycle.prices[n] = Snapshot(n))
    /\ [][(received' # received \/ price_cache' # price_cache)
          => pc = "idle" /\ received' = received + 1]_vars

\* the pass of the second message took a snapshot holding the prices of both
C24_SecondPassSeesBoth ==
    \E n \in Configured :
        /\ received = 2
        /\ cycle.attempts[n] > 0
        /\ DOMAIN cycle.prices[n] = {"GOLD", "OIL"}

\* C25: an iteration of _calculate_indices whose snapshot fails
\* validate_prices is counted: one of the counters of the metrics collector
\* is incremented by the step that skips the index.
C25_ValidationFailureCounted ==
    [][\A n \in Configured :
          cycle'.attempts[n] > cycle.attempts[n] /\ cycle'.outcome[n] = "invalid"
          => \/ \E label \in DOMAIN source_error_rate :
                   source_error_rate'[label] > source_error_rate[label]
             \/ \E m \in IndexNames :
                   index_calculations_total'[m] > index_calculations_total[m]
             \/ \E status \in LlmStatuses :
                   llm_requests_total'[status] > llm_requests_total[status]]_vars

\* C26: the in-memory cache never loses an entry: whatever message arrives
\* and however much time passes, every cache key held before a step is held
\* after it, so a symbol that has an entry keeps one.
C26_NoEviction ==
    [][/\ DictKeys(price_cache) \subseteq DictKeys(price_cache')
       /\ HeldSymbols \subseteq HeldSymbols'
       /\ Len(price_cache') >= Len(price_cache)]_vars

\* an entry observed before the present time is held next to a later one
C26_OldEntryHeld ==
    /\ HeldSymbols = {"GOLD", "OIL"}
    /\ \E i \in 1..Len(price_cache), j \in 1..Len(price_cache) :
          /\ price_cache[i].val.timestamp < now
          /\ price_cache[i].val.timestamp < price_cache[j].val.timestamp

\* C27: ties go to the later arrival: when the latest observation received
\* for a symbol carries the same timestamp as the newest one received before
\* it, from the same source or from another, every snapshot that holds the
\* symbol returns the price of that latest observation.
C27_LastWriterWinsOnTies ==
    \A n \in Configured :
        \A symbol \in DOMAIN Snapshot(n) :
            newest[symbol].tied => Snapshot(n)[symbol] = newest[symbol].last

\* the step is an iteration of the for loop for index n
Attempted(n) == cycle'.attempts[n] > cycle.attempts[n]

\* C28: an iteration of _calculate_indices takes its steps in the order
\* snapshot, validate, compute, delta lookup, persist, dispatch and stops at
\* the first that fails: an iteration that ends before the write (empty or
\* invalid snapshot, constructor or write error) leaves the table alone and
\* creates no insight task; an insight task is created for an index only in
\* an iteration whose snapshot was complete and valid and whose result, the
\* level of that snapshot, is in the table under the timestamp of this cycle.
C28_StepOrder ==
    [][\A n \in Configured :
          /\ Attempted(n) /\ cycle'.outcome[n] # "persisted"
             => index_values' = index_values /\ insight_tasks' = insight_tasks
          /\ Attempted(n) /\ cycle'.outcome[n] \in {"persisted", "store_error"}
             => CompletePositive(cycle'.prices[n], n) /\ cycle'.prices[n] = Snapshot(n)
          /\ insight_tasks'[n] > insight_tasks[n]
             => /\ Attempted(n)
                /\ cycle'.outcome[n] = "persisted"
                /\ insight_tasks'[n] = insight_tasks[n] + 1
                /\ <<now, n>> \in DOMAIN index_values'
                /\ index_values'[<<now, n>>] = RowOf(cycle'.stored[n])
                /\ cycle'.stored[n].payload.prices = cycle'.prices[n]]_vars

\* in one pass an index was persisted and got its insight task while another
\* failed at the write and got none
C28_DispatchedAfterPersist ==
    \E n \in Configured, m \in Configured :
        /\ cycle.outcome[n] = "persisted" /\ insight_tasks[n] = 1
        /\ cycle.outcome[m] = "store_error" /\ insight_tasks[m] = 0

\* symbol violates validation in the price map given as literals: it is
\* missing or its price is not above zero
Violates(price_lits, symbol) ==
    symbol \notin DOMAIN price_lits \/ price_lits[symbol][1] <= 0

\* the positions of the declared weight order whose symbol violates
Violations(order, price_lits) ==
    {i \in 1..Len(order) : Violates(price_lits, order[i])}

\* reason names the first violation of price_lits in the declared order
NamesFirstViolation(order, price_lits, reason) ==
    /\ Violations(order, price_lits) # {}
    /\ LET first == CHOOSE i \in Violations(order, price_lits) :
                        \A j \in Violations(order, price_lits) : i <= j
       IN  reason = (IF order[first] \notin DOMAIN price_lits
                     THEN "Missing price for " ELSE "Invalid price for ")
                    \o order[first]

\* C29 as claimed: for every price map that validate_prices refuses, the
\* reason names the first symbol of the declared weight order that is
\* missing or has a price <= 0.
C29_FirstViolationNamed ==
    fn.op = "validated" /\ ~fn.result.ok
    => NamesFirstViolation(fn.order, fn.price_lits, fn.result.reason)

\* C29: validate_prices refuses the empty price map with "No price data
\* provided", whatever the weights; it refuses a price map that is not empty
\* exactly when a symbol of the weight mapping is missing or has a price
\* <= 0, and the reason then names the first such symbol in the declared
\* weight order, as missing if it is missing and as invalid otherwise.
C29_FirstViolationOfNonEmpty ==
    fn.op = "validated"
    => IF DOMAIN fn.price_lits = {}
       THEN ~fn.result.ok /\ fn.result.reason = "No price data provided"
       ELSE IF fn.result.ok THEN Violations(fn.order, fn.price_lits) = {}
       ELSE NamesFirstViolation(fn.order, fn.price_lits, fn.result.reason)

\* a price map with two violations, refused for the first in declared order
C29_TwoViolationsFirstNamed ==
    /\ fn.op = "validated"
    /\ fn.order = <<"OIL", "GOLD">>
    /\ DOMAIN fn.price_lits = {"GOLD", "BTC"}
    /\ fn.price_lits["GOLD"] = ZeroLit
    /\ fn.result.reason = "Missing price for OIL"

\* the level that compute_level_normalized gives for the payload of a row of
\* index n
Recomputed(n, payload) ==
    LevelFor(Memo, [ConfigOf(n) EXCEPT !.weights = payload.weights,
                                       !.base_prices = payload.base_prices],
             CalculatorFor(Memo, [ConfigOf(n) EXCEPT !.weights = payload.weights,
                                                     !.base_prices = payload.base_prices]),
             payload.prices)

SatisfiesContract(data) ==
    /\ {"summary", "notable_events", "sentiment"} \subseteq DOMAIN data
    /\ data.summary.chars < 201
    /\ data.notable_events.type = "array"
    /\ \A asset \in DOMAIN data.sentiment :
          data.sentiment[asset] \in {"positive", "negative", "neutral"}

\* C31: only responses that satisfy the contract are persisted:
\* _parse_response hands on no answer of the Sentient API that violates it,
\* every row a _generate_insights task adds to the table insights satisfies
\* it, and a task whose answer violates it ends without a store.
C31_PersistedSatisfiesContract ==
    /\ [](\A reply \in Replies \ {Timeout} :
             parse_response(reply).raised = ""
             => reply.json /\ SatisfiesContract(parse_response(reply).insights))
    /\ [][insights' # insights
          => /\ Len(insights') = Len(insights) + 1
             /\ SubSeq(insights', 1, Len(insights)) = insights
             /\ SatisfiesContract(insights'[Len(insights')].insights)]_vars
    /\ [][\A n \in IndexNames :
             /\ insight_ended'[n] > insight_ended[n]
             /\ insight_reply'[n].reply # Timeout
             /\ ~(insight_reply'[n].reply.json
                  /\ SatisfiesContract(insight_reply'[n].reply.data))
             => insights' = insights]_vars

\* tasks have ended whose answers had a summary of 201 characters and
\* notable_events that is no list, with the database taking writes
C31_ViolatingAnswersRejected ==
    \E n \in IndexNames, m \in IndexNames :
        /\ insight_ended[n] > 0 /\ insight_ended[m] > 0
        /\ insight_reply[n].reply = LongSummary /\ insight_reply[n].store_ok
        /\ insight_reply[m].reply = EventsNotList /\ insight_reply[m].store_ok

\* the times of the rows of index n in the table, and of those at least 24
\* hours old
TimesOf(n) == {k[1] : k \in {j \in DOMAIN index_values : j[2] = n}}

AgedTimesOf(n) == {t \in TimesOf(n) : t + Day <= now}

NewestOf(times) == CHOOSE t \in times : \A u \in times : u <= t

\* the delta of the latest row of index n against its latest row at least
\* 24 hours old, in the table as it is
DeltaOfRows(n) ==
    delta_pct(index_values[<<NewestOf(TimesOf(n)), n>>].index_value,
              index_values[<<NewestOf(AgedTimesOf(n)), n>>].index_value)

\* C32: the delta_24h_pct that an iteration of _calculate_indices stores is
\* taken from the rows that were in the table before its write: it is absent
\* when the index has no row yet or no row at least 24 hours old, and
\* otherwise it is absent or the delta of the latest row against the latest
\* row at least 24 hours old, whatever the value being stored.
C32_DeltaFromEarlierRows ==
    [][\A n \in Configured :
          Attempted(n) /\ cycle'.outcome[n] = "persisted"
          => IF AgedTimesOf(n) = {}
             THEN cycle'.stored[n].delta_24h_pct = None
             ELSE \/ cycle'.stored[n].delta_24h_pct = None
                  \/ cycle'.stored[n].delta_24h_pct = DeltaOfRows(n)]_vars

\* a result is stored with a delta of 0.0 although its value differs from
\* the only earlier row, 24 hours old
C32_DeltaIgnoresNewValue ==
    \E n \in Configured :
        /\ cycle.outcome[n] = "persisted"
        /\ cycle.stamp[n] = Day
        /\ TimesOf(n) = {0, Day}
        /\ cycle.stored[n].delta_24h_pct = FZero
        /\ index_values[<<Day, n>>].index_value # index_values[<<0, n>>].index_value

\* what the iteration that is due does when the database answers the delta
\* read as read_ok says and accepts the write
DueIteration(memo, read_ok) ==
    IndexIteration(memo, index_configs[idx].name, index_configs[idx].config,
                   price_cache, index_values, now, read_ok, TRUE)

\* the iteration got past validation and left the result of the index in
\* the table with no delta
PersistedWithoutDelta(it, n) ==
    /\ it.outcome = "persisted"
    /\ it.stored.delta_24h_pct = None
    /\ <<now, n>> \in DOMAIN it.table
    /\ it.table[<<now, n>>] = RowOf(it.stored)

\* C33: the delta lookup never costs the result.  For the iteration that is
\* due, whenever the snapshot is complete and valid and the write is
\* accepted: if the delta read fails, or the index has no row at least 24
\* hours old, the result is persisted with delta_24h_pct absent; and if the
\* read goes through it is persisted as well.
C33_DeltaLookupNeverCosts ==
    pc = "calc" /\ CalculatorFor(Memo, index_configs[idx].config).raised = ""
                /\ CompletePositive(Snapshot(index_configs[idx].name), index_configs[idx].name)
    => /\ PersistedWithoutDelta(DueIteration(Memo, FALSE), index_configs[idx].name)
       /\ DueIteration(Memo, TRUE).outcome = "persisted"
       /\ AgedTimesOf(index_configs[idx].name) = {}
          => PersistedWithoutDelta(DueIteration(Memo, TRUE), index_configs[idx].name)

\* a result was persisted without a delta although the index has a row 24
\* hours old: the delta read failed
C33_PersistedAfterFailedRead ==
    \E n \in Configured :
        /\ cycle.outcome[n] = "persisted"
        /\ cycle.stamp[n] = Day
        /\ <<0, n>> \in DOMAIN index_values
        /\ index_values[<<Day, n>>].delta_24h_pct = None

\* the call that returned was a call of compute_return_index from the base
FromBaseCalled == ReturnCalled /\ fn.call \in FromBaseCalls

\* compute_level_normalized for the configuration and the current prices
\* of the call that returned
LevelOfCall ==
    compute_level_normalized(create_calculator(LoadConfig(fn.call.config)),
                             DecMap(fn.call.cur_prices))

\* half a unit of the second decimal plus half a unit of the fourth
RoundingGap == FromRatio(101, 20000)

\* C34: from the base the two methods agree.  With weights that sum to 1,
\* base prices above zero and a current price for every configured symbol,
\* compute_return_index(base_prices, prices, base_level) and
\* compute_level_normalized(prices) differ by no more than the two roundings
\* allow (0.005 + 0.00005); with a configured symbol missing from the prices
\* they differ.
C34_MethodsAgreeAtBase ==
    FromBaseCalled =>
        IF DOMAIN fn.call.config.weights \subseteq DOMAIN fn.call.cur_prices
        THEN FLe(FAbs(FSub(fn.result, LevelOfCall)), RoundingGap)
        ELSE fn.result # LevelOfCall

\* from the base to the example prices the return index is 1220.7197, next
\* to the level 1220.72
C34_ExampleFromBase ==
    /\ FromBaseCalled
    /\ fn.call.config = gold_silver_oil_crypto
    /\ fn.call.cur_prices = ExamplePrices
    /\ fn.result = FromRatio(12207197, 10000)
    /\ LevelOfCall = FromRatio(122072, 100)

\* from the base, with OIL missing from the prices, the two differ
C34_MissingSymbolDiffers ==
    /\ FromBaseCalled
    /\ DOMAIN fn.call.cur_prices = {"GOLD", "BTC"}
    /\ fn.result # LevelOfCall


\* the cache holds the observation of message.value under its key: the
\* message before it with that symbol and source was the same message
Redelivered(value) ==
    \E i \in 1..Len(price_cache) : price_cache[i].val = PriceData(value)

\* C35: re-delivery is idempotent on the cache: a turn of the loop for a
\* message whose observation the cache already holds, as it does after the
\* first delivery, leaves price_cache as it was, and
\* _get_latest_prices_for_index answers for every index what it answered
\* before.
C35_RedeliveryIdempotent ==
    [][\A value \in ValidValues :
          (ConsumeMessage(value) /\ Redelivered(value))
          => /\ price_cache' = price_cache
             /\ \A n \in Configured :
                    get_latest_prices_for_index(price_cache', ConfigOf(n))
                        = Snapshot(n)]_vars

\* two messages were received, both the same GOLD observation, and the
\* snapshot of an index holds its price
C35_SameMessageTwice ==
    /\ received = 2
    /\ Len(price_cache) = 1
    /\ newest["GOLD"] # None
    /\ newest["GOLD"].tied
    /\ Cardinality(newest["GOLD"].prices) = 1
    /\ \E n \in Configured : "GOLD" \in DOMAIN Snapshot(n)


\* the answer of compute_index is an error
AnsweredError == api.response.status_code # 200

\* the request of the step names a configured index whose calculator is
\* constructed, its prices pass validate_prices and its computation returns
\* a value
ValidatedAndComputed(request) ==
    /\ request.name \in Configured
    /\ create_calculator(ConfigOf(request.name)).raised = ""
    /\ validate_prices(create_calculator(ConfigOf(request.name)),
                       DecMap(request.body.prices)).ok
    /\ Computed(create_calculator(ConfigOf(request.name)), request.body).raised = None

\* C36: compute_index persists nothing on error: a call answered with an
\* error (404 unknown index, 400 failed validation, 400 return_based without
\* prev_prices or prev_index_level, 400 unknown method, 500) leaves the
\* table index_values as it was and adds no task to background_tasks; a
\* call that writes the table or adds a task was answered 200, for a request
\* that passed validate_prices and whose value was computed, and the row of
\* its key holds that value.
C36_ErrorPersistsNothing ==
    [][api'.request # api.request =>
        /\ AnsweredError' =>
              index_values' = index_values /\ api'.background_tasks = <<>>
        /\ (index_values' # index_values \/ api'.background_tasks # <<>>) =>
              /\ ~AnsweredError'
              /\ ValidatedAndComputed(api'.request)
              /\ index_values'[<<now, api'.request.name>>].index_value
                     = api'.response.index_value
              /\ api'.response.index_value
                     = Computed(create_calculator(ConfigOf(api'.request.name)),
                                api'.request.body).index_value]_vars

\* a request with an invalid price was answered 400 over a table that holds
\* the row of an earlier request
C36_InvalidOverEarlierRow ==
    /\ api.response # None
    /\ api.response.status_code = 400
    /\ api.response.detail = "Invalid price data"
    /\ api.request.name = "gold_oil"
    /\ "GOLD" \in DOMAIN api.request.body.prices
    /\ api.request.body.prices["GOLD"] = ZeroLit
    /\ DOMAIN index_values # {}


\* the observation whose price _get_latest_prices_for_index put in the
\* snapshot for the symbol is from the source
ObservedBy(symbol, source, price) ==
    /\ latest_price(price_cache, symbol) # None
    /\ latest_price(price_cache, symbol).price = price
    /\ latest_price(price_cache, symbol).source = source

\* C37: insight request provenance: for every symbol of the snapshot handed
\* to an insight task, the source named in the task's insight request is the
\* source of the observation whose price is in the snapshot, also when
\* several sources have reported the symbol.
C37_SourcesOfSnapshot ==
    \A n \in IndexNames :
        cycle.outcome[n] = "persisted" =>
            /\ DOMAIN cycle.sources[n] = DOMAIN cycle.prices[n]
            /\ \A symbol \in DOMAIN cycle.prices[n] :
                   ObservedBy(symbol, cycle.sources[n][symbol], cycle.prices[n][symbol])


\* C38: stop() closes every connection that was opened: when stop() has
\* returned, db_service.disconnect() has returned, also when
\* kafka_consumer.stop() or redis_client.close() raised; stop() lets no
\* exception through (it always comes to its return).
C38_StopDisconnects == stopped.ended => ~db_connected(stopped.awaits)

====
